---- MODULE Spec2Model ----
(***************************************************************************)
(* Model of the operator ("investigate") core of gaia:                     *)
(*   api/operator/safety.go   SafetyGuard  (Allow)                         *)
(*   api/operator/loop.go     OperatorLoop (Run)                           *)
(*   api/operator/planner.go  State, Decision, Planner.Decide              *)
(*   api/operator/tools.go    Registry, DefaultToolRegistry                *)
(*   api/operator/executor.go Executor.Run, FormatObservation              *)
(*   commands/investigate     runInvestigate                               *)
(*                                                                         *)
(* Text is a sequence of atoms.  An atom is a piece of text that the       *)
(* model never looks inside: a word ("sudo"), a blank (" ", "\n") or a     *)
(* string literal of the program ("blocked: ").  Concatenation is \o, so   *)
(* the program's string operations (TrimSpace, ToLower, Contains,          *)
(* HasPrefix, +) are computed, not assumed.                                *)
(***************************************************************************)
EXTENDS Integers, Sequences, FiniteSets, TLC

VARIABLES
    \* ---- one call of Allow (safety.go) ----
    aPc,        \* "ready" | "done" | "redone"
    aTool,      \* *Tool argument
    aArgs,      \* args map
    aOpts,      \* GuardOptions
    aRes,       \* (allowed, reason) of the last call, and the messages passed to ConfirmFunc
    aPrev,      \* result of the first call, kept when the call is repeated with Yes=true
    aRet,       \* what ConfirmFunc returned in the last call, if it was called
    \* ---- one call of Run (loop.go), possibly made by runInvestigate ----
    conf,       \* flags and configuration of the investigate command
    rPc,        \* "cli" | "call" | "loop" | "decided" | "found" | "allowed" | "returned"
    rGoal,      \* goal argument
    rCtx,       \* ctx argument: the call of Run during which it is cancelled, if any
    rOpts,      \* RunOptions
    stGoal,     \* state.Goal
    stSteps,    \* state.Steps
    rStep,      \* loop variable step
    rParseFailures,  \* parseFailures
    rDecision,  \* decision of the current iteration
    rTool,      \* tool of the current iteration
    rRet,       \* (finalAnswer, err) returned by Run
    rEvents,    \* calls made so far: planner, registry, guard, confirm, executor, shell
    \* ---- one call of Executor.Run (executor.go) ----
    xPc,        \* "idle" | "ready" | "done"
    xExecutor,  \* the Executor: how it was made and its MaxOutputBytes
    xOut,       \* (stdout, stderr, err) returned by tool.Exec
    xRes,       \* (stdout, stderr, err) returned by Executor.Run
    \* ---- one Registry used by several goroutines (tools.go) ----
    gTools,     \* r.tools
    gMu,        \* r.mu: the goroutine holding the write lock, those holding the read lock
    gProc,      \* per goroutine: the call it is in and its position in it
    gHist,      \* the writes to r.tools, in the order they were made
    gDone,      \* the calls that have returned, with their results
    gCalls,     \* number of calls started
    \* ---- role detection (api/auto_role.go) ----
    hPc,        \* "idle" | "ready" | "called"
    hMessage,   \* message argument
    hRoles,     \* availableRoles argument
    hKeywords,  \* configuration auto_role.keywords.<role>
    hScores,    \* the scores map at the end of the last evaluation
    hRets,      \* (role, score) returned by each evaluation of detectRoleHeuristic so far
    dConf,      \* the settings DetectRole reads, and what the LLM would reply
    dCache,     \* the cached DetectionResult for this message, if any
    dRet,       \* the DetectionResult returned by DetectRole
    dRan,       \* the detections DetectRole ran
    \* ---- one call of extractJSON (planner.go) ----
    jPc,        \* "idle" | "ready" | "done"
    jIn,        \* the argument s
    jOut,       \* extractJSON(s)
    jAgain      \* extractJSON(extractJSON(s))

allowVars == <<aPc, aTool, aArgs, aOpts, aRes, aPrev, aRet>>

runVars == <<conf, rPc, rGoal, rCtx, rOpts, stGoal, stSteps, rStep, rParseFailures,
             rDecision, rTool, rRet, rEvents>>

execVars == <<xPc, xExecutor, xOut, xRes>>

regVars == <<gTools, gMu, gProc, gHist, gDone, gCalls>>

roleVars == <<hPc, hMessage, hRoles, hKeywords, hScores, hRets, dConf, dCache, dRet, dRan>>

jsonVars == <<jPc, jIn, jOut, jAgain>>

vars == <<aPc, aTool, aArgs, aOpts, aRes, aPrev, aRet,
          conf, rPc, rGoal, rCtx, rOpts, stGoal, stSteps, rStep, rParseFailures,
          rDecision, rTool, rRet, rEvents,
          xPc, xExecutor, xOut, xRes,
          gTools, gMu, gProc, gHist, gDone, gCalls,
          hPc, hMessage, hRoles, hKeywords, hScores, hRets, dConf, dCache, dRet, dRan,
          jPc, jIn, jOut, jAgain>>

----------------------------------------------------------------------------
(* Text                                                                    *)

\* unicode.IsSpace on the atoms of the model
IsSpace(c) == c \in {" ", "\n"}

\* unicode.ToLower on the atoms of the model
ToLowerChar(c) ==
    CASE c = "Sudo" -> "sudo"
      [] c = "LS"   -> "ls"
      [] OTHER      -> c

\* strings.ToLower
ToLower(s) == [i \in 1..Len(s) |-> ToLowerChar(s[i])]

SetMin(S) == CHOOSE x \in S : \A y \in S : x <= y
SetMax(S) == CHOOSE x \in S : \A y \in S : x >= y

\* strings.TrimSpace: drop leading and trailing white space
TrimSpace(s) ==
    LET keep == {i \in 1..Len(s) : ~IsSpace(s[i])}
    IN  IF keep = {} THEN <<>> ELSE SubSeq(s, SetMin(keep), SetMax(keep))

\* strings.Contains
Contains(s, sub) ==
    \E i \in 0..(Len(s) - Len(sub)) : SubSeq(s, i + 1, i + Len(sub)) = sub

\* strings.HasPrefix
HasPrefix(s, p) == Len(p) <= Len(s) /\ SubSeq(s, 1, Len(p)) = p

\* all lists of at most n elements of S
ListsOf(S, n) == UNION {[1..k -> S] : k \in 0..n}

\* strings.Join(strings.Fields(strings.TrimSpace(s)), " ")
RECURSIVE Squeeze(_)
Squeeze(s) ==
    IF s = <<>> THEN <<>>
    ELSE IF IsSpace(Head(s))
         THEN IF Len(s) > 1 /\ IsSpace(s[2])
              THEN Squeeze(Tail(s))
              ELSE <<" ">> \o Squeeze(Tail(s))
         ELSE <<Head(s)>> \o Squeeze(Tail(s))

JoinFields(s) == Squeeze(TrimSpace(s))

\* args[k] of a Go map[string]string: the zero value "" when k is absent
ArgsGet(args, k) == IF k \in DOMAIN args THEN args[k] ELSE <<>>

NoArgs == <<>>
CmdArgs(c) == [cmd |-> c]

----------------------------------------------------------------------------
(* safety.go                                                               *)

RiskLow == 0
RiskMedium == 1
RiskHigh == 2
RiskCritical == 3

RunCmdName == "run_cmd"

\* a nil *Tool
NilTool == [Name |-> "<nil>", RiskLevel |-> 0]

\* what a ConfirmFunc can return: (confirmed, err)
ConfirmReturns == [confirmed : BOOLEAN, err : {"nil", "read error"}]

Blocked(reason) == [allowed |-> FALSE, reason |-> reason, asked |-> <<>>]
Allowed == [allowed |-> TRUE, reason |-> <<>>, asked |-> <<>>]

\* safety.go:49
IsCriticalMutAbove(tool) == tool.RiskLevel > RiskCritical
IsCritical(tool) == tool.RiskLevel = RiskCritical

\* safety.go:59, one denylist entry against the lower-cased trimmed command
DenyMatchesMutNoFold(cmdLower, deny) == Contains(cmdLower, TrimSpace(deny))
DenyMatches(cmdLower, deny) == Contains(cmdLower, ToLower(TrimSpace(deny)))

\* safety.go:58-62, index of the first denylist entry that matches, 0 if none
FirstDenyMutLast(cmdLower, denylist) ==
    LET hits == {i \in 1..Len(denylist) : DenyMatches(cmdLower, denylist[i])}
    IN  IF hits = {} THEN 0 ELSE SetMax(hits)
FirstDeny(cmdLower, denylist) ==
    LET hits == {i \in 1..Len(denylist) : DenyMatches(cmdLower, denylist[i])}
    IN  IF hits = {} THEN 0 ELSE SetMin(hits)

\* safety.go:66-67, one allowlist entry against the lower-cased trimmed command
AllowMatches(cmdLower, allow) ==
    \/ HasPrefix(cmdLower, ToLower(TrimSpace(allow)))
    \/ Contains(cmdLower, ToLower(TrimSpace(allow)))

\* safety.go:63-75, the command is refused by a non-empty allowlist
NotInAllowlistMutDryRun(cmdLower, opts) ==
    /\ Len(opts.Allowlist) > 0
    /\ ~opts.DryRun
    /\ ~\E i \in 1..Len(opts.Allowlist) : AllowMatches(cmdLower, opts.Allowlist[i])
NotInAllowlistMutYes(cmdLower, opts) ==
    /\ Len(opts.Allowlist) > 0
    /\ ~opts.Yes
    /\ ~\E i \in 1..Len(opts.Allowlist) : AllowMatches(cmdLower, opts.Allowlist[i])
NotInAllowlist(cmdLower, opts) ==
    /\ Len(opts.Allowlist) > 0
    /\ ~\E i \in 1..Len(opts.Allowlist) : AllowMatches(cmdLower, opts.Allowlist[i])

\* safety.go:80
NeedsConfirmMutIgnoreYes(tool, opts) ==
    /\ tool.RiskLevel >= RiskMedium
    /\ opts.ConfirmMediumRisk
    /\ opts.ConfirmFunc # "nil"
NeedsConfirmMutNilAsks(tool, opts) ==
    /\ tool.RiskLevel >= RiskMedium
    /\ opts.ConfirmMediumRisk
    /\ ~opts.Yes
NeedsConfirm(tool, opts) ==
    /\ tool.RiskLevel >= RiskMedium
    /\ opts.ConfirmMediumRisk
    /\ ~opts.Yes
    /\ opts.ConfirmFunc # "nil"

\* safety.go:93-100
formatToolCallForConfirm(name, args) ==
    IF name = RunCmdName /\ "cmd" \in DOMAIN args
    THEN <<"Run command: ">> \o args["cmd"]
    ELSE <<name, " with args: ">> \o JoinFields(ArgsGet(args, "cmd"))

\* safety.go:80-89, the confirmation step; ret is what ConfirmFunc returns
ConfirmMutErrIgnored(tool, args, ret) ==
    LET msg == formatToolCallForConfirm(tool.Name, args)
    IN  IF ~ret.confirmed
        THEN [allowed |-> FALSE, reason |-> <<"user declined">>, asked |-> <<msg>>]
        ELSE [allowed |-> TRUE, reason |-> <<>>, asked |-> <<msg>>]
Confirm(tool, args, ret) ==
    LET msg == formatToolCallForConfirm(tool.Name, args)
    IN  IF ret.err # "nil"
        THEN [allowed |-> FALSE, reason |-> <<"confirmation failed: ", ret.err>>,
              asked |-> <<msg>>]
        ELSE IF ~ret.confirmed
        THEN [allowed |-> FALSE, reason |-> <<"user declined">>, asked |-> <<msg>>]
        ELSE [allowed |-> TRUE, reason |-> <<>>, asked |-> <<msg>>]

\* safety.go:45-90.  ret is what opts.ConfirmFunc returns if it is called.
Allow(tool, args, opts, ret) ==
    IF tool = NilTool THEN Blocked(<<"no tool">>)
    ELSE IF IsCritical(tool)
    THEN Blocked(<<"tool ", tool.Name, " is not allowed (critical risk)">>)
    ELSE
    LET cmd == TrimSpace(ArgsGet(args, "cmd"))
        cmdLower == ToLower(cmd)
        hit == FirstDeny(cmdLower, opts.Denylist)
    IN  IF cmd = <<>> /\ tool.Name = RunCmdName THEN Blocked(<<"empty command">>)
        ELSE IF tool.Name = RunCmdName /\ hit # 0
        THEN Blocked(<<"command blocked by denylist: ">> \o opts.Denylist[hit])
        ELSE IF tool.Name = RunCmdName /\ NotInAllowlist(cmdLower, opts)
        THEN Blocked(<<"command not in allowlist">>)
        ELSE IF opts.DryRun THEN Allowed
        ELSE IF NeedsConfirm(tool, opts) THEN Confirm(tool, args, ret)
        ELSE Allowed

----------------------------------------------------------------------------
(* planner.go: State, Decision, Planner.Decide                             *)

NilErr == <<>>

\* State.AppendObservation
AppendObservationMutDropped(steps, content) == steps
AppendObservation(steps, content) == Append(steps, [Role |-> "user", Content |-> content])

\* State.AppendDecision
AppendDecisionMutReplace(steps, raw) ==
    IF steps = <<>> THEN <<[Role |-> "assistant", Content |-> raw]>>
    ELSE [steps EXCEPT ![Len(steps)] = [Role |-> "assistant", Content |-> raw]]
AppendDecision(steps, raw) == Append(steps, [Role |-> "assistant", Content |-> raw])

\* State.LastAnswerOrPartial
LastAnswerOrPartialMutFirst(goal, steps) ==
    LET as == {i \in 1..Len(steps) : steps[i].Role = "assistant"}
    IN  IF as = {} THEN goal ELSE steps[SetMin(as)].Content
LastAnswerOrPartialMutLastStep(goal, steps) ==
    IF steps = <<>> THEN goal ELSE steps[Len(steps)].Content
LastAnswerOrPartial(goal, steps) ==
    LET as == {i \in 1..Len(steps) : steps[i].Role = "assistant"}
    IN  IF as = {} THEN goal ELSE steps[SetMax(as)].Content

\* A reply of the completion capability, after extractJSON: either text that
\* is no JSON object, [text |-> t], or a JSON object given by its members.
Member(body, k, default) == IF k \in DOMAIN body THEN body[k] ELSE default

NoDecision ==
    [Action |-> "", Content |-> <<>>, Name |-> "", ArgsNil |-> TRUE, Args |-> NoArgs,
     Reasoning |-> <<>>]

\* json.Unmarshal into a Decision: absent members keep their zero value
Unmarshal(body) ==
    [Action |-> Member(body, "action", ""),
     Content |-> Member(body, "content", <<>>),
     Name |-> Member(body, "name", ""),
     ArgsNil |-> "args" \notin DOMAIN body,
     Args |-> Member(body, "args", NoArgs),
     Reasoning |-> Member(body, "reasoning", <<>>)]

\* planner.go:86-91, the validation of a decoded Decision
DecisionErrorMutNoToolCheck(dec) ==
    IF dec.Action # "answer" /\ dec.Action # "tool"
    THEN <<"invalid action ", dec.Action, " (expected answer or tool)">>
    ELSE NilErr
DecisionError(dec) ==
    IF dec.Action # "answer" /\ dec.Action # "tool"
    THEN <<"invalid action ", dec.Action, " (expected answer or tool)">>
    ELSE IF dec.Action = "tool" /\ (dec.Name = "" \/ dec.ArgsNil)
    THEN <<"tool decision missing name or args">>
    ELSE NilErr

\* Planner.Decide: (decision, raw, err) for a reply (sendErr, body)
Decide(reply) ==
    IF reply.sendErr # NilErr
    THEN [dec |-> NoDecision, raw |-> [text |-> <<>>], err |-> reply.sendErr]
    ELSE IF "text" \in DOMAIN reply.body
    THEN [dec |-> NoDecision, raw |-> reply.body,
          err |-> <<"invalid JSON: ", "invalid character">>]
    ELSE LET dec == Unmarshal(reply.body)
         IN  IF DecisionError(dec) # NilErr
             THEN [dec |-> NoDecision, raw |-> reply.body, err |-> DecisionError(dec)]
             ELSE [dec |-> dec, raw |-> reply.body, err |-> NilErr]

\* Planner.systemPrompt: fixed text and the description of the one tool
systemPrompt ==
    <<"You are an operator investigating a goal. Respond only with a single JSON object",
      "Available tools (respond with JSON only):", "\n", "- ", "run_cmd", ": ",
      "Execute a shell command.", " Args: ", "cmd: shell command to run", "\n">>

\* Planner.buildMessages: the messages of the request sent by Decide
buildMessages(goal, steps) ==
    <<[Role |-> "system", Content |-> systemPrompt],
      [Role |-> "user", Content |-> <<"Goal: ">> \o goal]>> \o steps

----------------------------------------------------------------------------
(* tools.go, executor.go                                                   *)

\* DefaultToolRegistry(shellRunner).Get(name): only run_cmd is registered
RegistryGet(name) ==
    IF name = RunCmdName
    THEN [Name |-> RunCmdName, RiskLevel |-> RiskMedium]
    ELSE NilTool

\* executor.go:10
MaxOutputBytes == 4096

\* NewExecutor
NewExecutor(maxBytes) == IF maxBytes <= 0 THEN MaxOutputBytes ELSE maxBytes

\* executor.go:45, the bytes of "\n(truncated)"
TruncatedSuffix == <<"\n", "(", "t", "r", "u", "n", "c", "a", "t", "e", "d", ")">>

\* Executor.truncate; the atoms of a command output are single bytes
truncateMutOffByOne(max, s) ==
    LET m == IF max <= 0 THEN MaxOutputBytes ELSE max
    IN  IF Len(s) < m THEN s ELSE SubSeq(s, 1, m) \o TruncatedSuffix
truncate(max, s) ==
    LET m == IF max <= 0 THEN MaxOutputBytes ELSE max
    IN  IF Len(s) <= m THEN s ELSE SubSeq(s, 1, m) \o TruncatedSuffix

\* FormatObservation
FormatObservationMutNoErr(stdout, stderr, execErr) ==
    TrimSpace(
        (IF stdout # <<>> THEN <<"stdout:", "\n">> \o stdout \o <<"\n">> ELSE <<>>)
     \o (IF stderr # <<>> THEN <<"stderr:", "\n">> \o stderr \o <<"\n">> ELSE <<>>))
FormatObservation(stdout, stderr, execErr) ==
    TrimSpace(
        (IF stdout # <<>> THEN <<"stdout:", "\n">> \o stdout \o <<"\n">> ELSE <<>>)
     \o (IF stderr # <<>> THEN <<"stderr:", "\n">> \o stderr \o <<"\n">> ELSE <<>>)
     \o (IF execErr # NilErr THEN <<"error: ">> \o execErr ELSE <<>>))

\* what a ShellRunner.Run can return: (stdout, stderr, err)
ShellReturns ==
    { [stdout |-> <<"o", "k">>, stderr |-> <<>>, err |-> NilErr],
      [stdout |-> <<>>, stderr |-> <<"E">>,
       err |-> <<"command failed with exit code 2">>] }

\* tools.go:71-76, Exec of run_cmd without a ShellRunner
NoRunnerReturn == [stdout |-> <<>>, stderr |-> <<>>, err |-> NilErr]

----------------------------------------------------------------------------
(* loop.go: Run                                                            *)

\* loop.go:12
ErrMaxStepsReached == <<"max steps reached">>

\* loop.go:36-38
DefaultMaxSteps == 10
NormMaxStepsMutNoDefault(n) == n
NormMaxSteps(n) == IF n <= 0 THEN DefaultMaxSteps ELSE n

\* loop.go:39-41
DefaultMaxParseFailures == 2
NormMaxParseFailures(n) == IF n <= 0 THEN DefaultMaxParseFailures ELSE n

\* loop.go:47-54
GuardOpts(opts) ==
    [Denylist |-> opts.Denylist, Allowlist |-> opts.Allowlist,
     ConfirmMediumRisk |-> opts.ConfirmMediumRisk, DryRun |-> opts.DryRun,
     Yes |-> opts.Yes, ConfirmFunc |-> opts.ConfirmFunc]

\* loop.go:59-60 and 70: parseFailures after a Decide that returned err
ParseFailuresAfterMutNoReset(n, err) == IF err # NilErr THEN n + 1 ELSE n
ParseFailuresAfter(n, err) == IF err # NilErr THEN n + 1 ELSE 0

\* loop.go:85
IsAnswer(dec) == dec.Action = "answer"

\* loop.go:86
AnswerReturnMutRaw(dec) == [answer |-> dec.Content, err |-> NilErr]
AnswerReturn(dec) == [answer |-> TrimSpace(dec.Content), err |-> NilErr]

\* loop.go:99
GuardPassesMutAlways(res) == TRUE
GuardPasses(res) == res.allowed

\* loop.go:107
IsDryRunMutUnlessYes(opts) == opts.DryRun /\ ~opts.Yes
IsDryRun(opts) == opts.DryRun

\* loop.go:108-111
DryRunObservation(dec) ==
    <<"dry_run: Would run: ", dec.Name>>
        \o (IF "cmd" \in DOMAIN dec.Args THEN <<" ">> \o dec.Args["cmd"] ELSE <<>>)

Event(ev, step, name, args, ok, text) ==
    [ev |-> ev, step |-> step, name |-> name, args |-> args, ok |-> ok, text |-> text]

NoRet == [answer |-> <<"<none>">>, err |-> <<"<none>">>]
NoConf == [used |-> FALSE]

\* loop.go:33
GoalIsEmptyMutNever(goal) == FALSE
GoalIsEmpty(goal) == goal = <<>>

\* Run is entered: loop.go:32-56
RunEnter ==
    /\ rPc = "call"
    /\ LET goal == TrimSpace(rGoal)
       IN  IF GoalIsEmpty(goal)
           THEN /\ rRet' = [answer |-> <<>>, err |-> <<"goal cannot be empty">>]
                /\ rPc' = "returned"
                /\ rEvents' = Append(rEvents, Event("return", 0, "", NoArgs, FALSE, <<>>))
                /\ UNCHANGED <<rOpts, stGoal, stSteps, rStep, rParseFailures>>
           ELSE /\ rOpts' = [rOpts EXCEPT
                                !.MaxSteps = NormMaxSteps(rOpts.MaxSteps),
                                !.MaxParseFailures = NormMaxParseFailures(rOpts.MaxParseFailures)]
                /\ stGoal' = goal
                /\ stSteps' = <<>>
                /\ rStep' = 0
                /\ rParseFailures' = 0
                /\ rPc' = "loop"
                /\ UNCHANGED <<rRet, rEvents>>
    /\ UNCHANGED <<conf, rGoal, rCtx, rDecision, rTool>>
    /\ UNCHANGED <<allowVars, execVars, regVars, roleVars, jsonVars>>

\* loop.go:57-87: planner.Decide and what Run does with its result
PlannerDecide(reply) ==
    /\ rPc = "loop"
    /\ rStep < rOpts.MaxSteps
    /\ LET d == Decide(reply)
           ev == Event("decide", rStep, d.dec.Name, d.dec.Args, d.err = NilErr,
                       <<d.dec.Action>>)
       IN  IF d.err # NilErr
           THEN LET steps == AppendObservation(stSteps,
                                 <<"error: Invalid response: ">> \o d.err
                                     \o <<". Respond with valid JSON only.">>)
                IN  /\ rParseFailures' = ParseFailuresAfter(rParseFailures, d.err)
                    /\ stSteps' = steps
                    /\ UNCHANGED <<rDecision>>
                    /\ IF rParseFailures' >= rOpts.MaxParseFailures
                       THEN /\ rRet' = [answer |-> LastAnswerOrPartial(stGoal, steps),
                                        err |-> <<"repeated parse failures: ">> \o d.err]
                            /\ rPc' = "returned"
                            /\ rEvents' = rEvents \o
                                   <<ev, Event("return", rStep, "", NoArgs, FALSE, <<>>)>>
                            /\ UNCHANGED rStep
                       ELSE /\ rStep' = rStep + 1
                            /\ rPc' = "loop"
                            /\ rEvents' = Append(rEvents, ev)
                            /\ UNCHANGED rRet
           ELSE /\ rParseFailures' = ParseFailuresAfter(rParseFailures, d.err)
                /\ stSteps' = AppendDecision(stSteps, d.raw)
                /\ rDecision' = d.dec
                /\ IF IsAnswer(d.dec)
                   THEN /\ rRet' = AnswerReturn(d.dec)
                        /\ rPc' = "returned"
                        /\ rEvents' = rEvents \o
                               <<ev, Event("return", rStep, "", NoArgs, TRUE, <<>>)>>
                   ELSE /\ rPc' = "decided"
                        /\ rEvents' = Append(rEvents, ev)
                        /\ UNCHANGED rRet
                /\ UNCHANGED rStep
    /\ UNCHANGED <<conf, rGoal, rCtx, rOpts, stGoal, rTool>>
    /\ UNCHANGED <<allowVars, execVars, regVars, roleVars, jsonVars>>

\* loop.go:89-96: registry.Get
Lookup ==
    /\ rPc = "decided"
    /\ LET tool == RegistryGet(rDecision.Name)
           ev == Event("lookup", rStep, rDecision.Name, rDecision.Args, tool # NilTool, <<>>)
       IN  /\ rEvents' = Append(rEvents, ev)
           /\ rTool' = tool
           /\ IF tool = NilTool
              THEN /\ stSteps' = AppendObservation(stSteps,
                                     <<"error: Unknown tool: ", rDecision.Name>>)
                   /\ rStep' = rStep + 1
                   /\ rPc' = "loop"
              ELSE /\ rPc' = "found"
                   /\ UNCHANGED <<stSteps, rStep>>
    /\ UNCHANGED <<conf, rGoal, rCtx, rOpts, stGoal, rParseFailures, rDecision, rRet>>
    /\ UNCHANGED <<allowVars, execVars, regVars, roleVars, jsonVars>>

\* loop.go:98-105: Allow; ret is what ConfirmFunc returns if it is called
Guard(ret) ==
    /\ rPc = "found"
    /\ LET res == Allow(rTool, rDecision.Args, GuardOpts(rOpts), ret)
           asks == [i \in 1..Len(res.asked) |->
                       Event("confirm", rStep, rTool.Name, rDecision.Args, TRUE, res.asked[i])]
           ev == Event("guard", rStep, rTool.Name, rDecision.Args, res.allowed, res.reason)
       IN  /\ rEvents' = rEvents \o asks \o <<ev>>
           /\ IF ~GuardPasses(res)
              THEN /\ stSteps' = AppendObservation(stSteps, <<"blocked: ">> \o res.reason)
                   /\ rStep' = rStep + 1
                   /\ rPc' = "loop"
              ELSE /\ rPc' = "allowed"
                   /\ UNCHANGED <<stSteps, rStep>>
    /\ UNCHANGED <<conf, rGoal, rCtx, rOpts, stGoal, rParseFailures, rDecision, rTool, rRet>>
    /\ UNCHANGED <<allowVars, execVars, regVars, roleVars, jsonVars>>

\* loop.go:107-117
DryRunStep ==
    /\ rPc = "allowed"
    /\ IsDryRun(rOpts)
    /\ stSteps' = AppendObservation(stSteps, DryRunObservation(rDecision))
    /\ rStep' = rStep + 1
    /\ rPc' = "loop"
    /\ UNCHANGED <<conf, rGoal, rCtx, rOpts, stGoal, rParseFailures, rDecision, rTool, rRet,
                   rEvents>>
    /\ UNCHANGED <<allowVars, execVars, regVars, roleVars, jsonVars>>

\* loop.go:119-128: executor.Run, tool.Exec, FormatObservation;
\* out is what the ShellRunner returns if there is one
Execute(out) ==
    /\ rPc = "allowed"
    /\ ~IsDryRun(rOpts)
    /\ LET got == IF rOpts.ShellRunner = "nil" THEN NoRunnerReturn ELSE out
           max == NewExecutor(rOpts.MaxOutputBytes)
           obs == FormatObservation(truncate(max, got.stdout), truncate(max, got.stderr),
                                    got.err)
           exec == Event("exec", rStep, rTool.Name, rDecision.Args, TRUE, <<>>)
           shell == Event("shell", rStep, rTool.Name, rDecision.Args, got.err = NilErr,
                          got.stdout)
       IN  /\ stSteps' = AppendObservation(stSteps, obs)
           /\ rEvents' = rEvents \o <<exec>>
                            \o (IF rOpts.ShellRunner = "nil" THEN <<>> ELSE <<shell>>)
    /\ rStep' = rStep + 1
    /\ rPc' = "loop"
    /\ UNCHANGED <<conf, rGoal, rCtx, rOpts, stGoal, rParseFailures, rDecision, rTool, rRet>>
    /\ UNCHANGED <<allowVars, execVars, regVars, roleVars, jsonVars>>

\* loop.go:57 and 131: the step limit is reached
MaxStepsExit ==
    /\ rPc = "loop"
    /\ rStep >= rOpts.MaxSteps
    /\ rRet' = [answer |-> LastAnswerOrPartial(stGoal, stSteps), err |-> ErrMaxStepsReached]
    /\ rPc' = "returned"
    /\ rEvents' = Append(rEvents, Event("return", rStep, "", NoArgs, FALSE, <<>>))
    /\ UNCHANGED <<conf, rGoal, rCtx, rOpts, stGoal, stSteps, rStep, rParseFailures, rDecision,
                   rTool>>
    /\ UNCHANGED <<allowVars, execVars, regVars, roleVars, jsonVars>>

----------------------------------------------------------------------------
(* Inputs of Run                                                           *)

\* largest MaxSteps given to Run
MaxStepsIn == 2

Goals == { <<" ", "why">>, <<" ">>, <<>> }

\* replies of the completion capability (after extractJSON)
Replies ==
    { [sendErr |-> <<"connection refused">>, body |-> [text |-> <<>>]],
      [sendErr |-> NilErr, body |-> [text |-> <<"Sure!">>]],
      [sendErr |-> NilErr, body |-> [action |-> "run"]],
      [sendErr |-> NilErr, body |-> [action |-> "tool", name |-> RunCmdName]],
      [sendErr |-> NilErr, body |-> [action |-> "answer", content |-> <<" ", "done", "\n">>]],
      [sendErr |-> NilErr, body |-> [action |-> "answer"]],
      [sendErr |-> NilErr,
       body |-> [action |-> "tool", name |-> RunCmdName, args |-> CmdArgs(<<"ls">>),
                 reasoning |-> <<"look">>]],
      [sendErr |-> NilErr,
       body |-> [action |-> "tool", name |-> RunCmdName,
                 args |-> CmdArgs(<<"Sudo", " ", "ls">>)]],
      [sendErr |-> NilErr, body |-> [action |-> "tool", name |-> RunCmdName, args |-> NoArgs]],
      [sendErr |-> NilErr, body |-> [action |-> "tool", name |-> "", args |-> CmdArgs(<<"ls">>)]],
      [sendErr |-> NilErr,
       body |-> [action |-> "tool", name |-> "nope", args |-> CmdArgs(<<"ls">>)]] }

\* (denylist, allowlist) pairs given to Run
RunLists ==
    { <<<<>>, <<>>>>, << << <<"sudo">> >>, <<>> >>, << <<>>, << <<" ", "LS">> >> >> }

RunOptionsSet ==
    { [MaxSteps |-> n, DryRun |-> d, Yes |-> y, Denylist |-> l[1], Allowlist |-> l[2],
       ConfirmMediumRisk |-> c, ConfirmFunc |-> f, ShellRunner |-> r,
       MaxOutputBytes |-> 0, MaxParseFailures |-> p] :
        n \in 1..MaxStepsIn, d \in BOOLEAN, y \in BOOLEAN, l \in RunLists,
        c \in BOOLEAN, f \in {"nil", "func"}, r \in {"nil", "runner"}, p \in {0, 1} }

AllowIdle ==
    /\ aPc = "idle"
    /\ aTool = NilTool
    /\ aArgs = NoArgs
    /\ aOpts = [Denylist |-> <<>>, Allowlist |-> <<>>, ConfirmMediumRisk |-> FALSE,
                DryRun |-> FALSE, Yes |-> FALSE, ConfirmFunc |-> "nil"]
    /\ aRes = [allowed |-> FALSE, reason |-> <<"<none>">>, asked |-> <<>>]
    /\ aPrev = [allowed |-> FALSE, reason |-> <<"<none>">>, asked |-> <<>>]
    /\ aRet = [confirmed |-> FALSE, err |-> "<none>"]

\* no Executor is used on its own
ExecIdle ==
    /\ xPc = "idle"
    /\ xExecutor = [arg |-> 0, MaxOutputBytes |-> 0]
    /\ xOut = NoRunnerReturn
    /\ xRes = NoRunnerReturn

\* no role is being detected
RoleIdle ==
    /\ hPc = "idle"
    /\ hMessage = <<>>
    /\ hRoles = <<>>
    /\ hKeywords = <<>>
    /\ hScores = <<>>
    /\ hRets = <<>>
    /\ dConf = <<>>
    /\ dCache = <<>>
    /\ dRet = <<>>
    /\ dRan = {}

\* extractJSON is not being called
JsonIdle ==
    /\ jPc = "idle"
    /\ jIn = <<>>
    /\ jOut = <<>>
    /\ jAgain = <<>>

\* no Registry is shared between goroutines
RegIdle ==
    /\ gTools = <<>>
    /\ gMu = [writer |-> {}, readers |-> {}]
    /\ gProc = <<>>
    /\ gHist = <<>>
    /\ gDone = <<>>
    /\ gCalls = 0

\* a context that is not cancelled while Run is running
NoCancel == [at |-> -1, in |-> "none"]

RunBlank ==
    /\ rCtx = NoCancel
    /\ stGoal = <<>>
    /\ stSteps = <<>>
    /\ rStep = 0
    /\ rParseFailures = 0
    /\ rDecision = NoDecision
    /\ rTool = NilTool
    /\ rRet = NoRet
    /\ rEvents = <<>>

RunIdle ==
    /\ conf = NoConf
    /\ rPc = "idle"
    /\ rGoal = <<>>
    /\ rOpts = [MaxSteps |-> 0, DryRun |-> FALSE, Yes |-> FALSE, Denylist |-> <<>>,
                Allowlist |-> <<>>, ConfirmMediumRisk |-> FALSE, ConfirmFunc |-> "nil",
                ShellRunner |-> "nil", MaxOutputBytes |-> 0, MaxParseFailures |-> 0]
    /\ RunBlank

\* a caller calls Run(ctx, goal, opts)
Init ==
    /\ AllowIdle
    /\ ExecIdle
    /\ RegIdle
    /\ RoleIdle
    /\ JsonIdle
    /\ conf = NoConf
    /\ rPc = "call"
    /\ rGoal \in Goals
    /\ rOpts \in RunOptionsSet
    /\ RunBlank

Next ==
    \/ RunEnter
    \/ \E reply \in Replies : PlannerDecide(reply)
    \/ Lookup
    \/ \E ret \in ConfirmReturns : Guard(ret)
    \/ DryRunStep
    \/ \E out \in ShellReturns : Execute(out)
    \/ MaxStepsExit

Spec == Init /\ [][Next]_vars

----------------------------------------------------------------------------
(* commands: runInvestigate                                                *)

\* flags and configuration of one `gaia investigate` invocation
ConfSet ==
    { [used |-> TRUE, flagMaxSteps |-> n, flagDryRun |-> fd, flagYes |-> fy,
       cfgDryRun |-> cd, cfgConfirmMediumRisk |-> cc, cfgDenylist |-> l[1],
       cfgAllowlist |-> l[2], cfgOutputMaxBytes |-> 0, out |-> "none"] :
        n \in 1..MaxStepsIn, fd \in BOOLEAN, fy \in BOOLEAN, cd \in BOOLEAN,
        cc \in BOOLEAN, l \in RunLists }

\* tui_prompts.go:319-331: the RunOptions built from flags and configuration
InvestigateOptions(c) ==
    [MaxSteps |-> c.flagMaxSteps,
     DryRun |-> c.flagDryRun,
     Yes |-> c.flagYes,
     Denylist |-> c.cfgDenylist,
     Allowlist |-> c.cfgAllowlist,
     ConfirmMediumRisk |-> c.cfgConfirmMediumRisk,
     ConfirmFunc |-> "func",
     ShellRunner |-> "runner",
     MaxOutputBytes |-> c.cfgOutputMaxBytes,
     MaxParseFailures |-> 0]

\* tui_prompts.go:301-334: runInvestigate up to its call of operator.Run
RunInvestigate ==
    /\ rPc = "cli"
    /\ rOpts' = InvestigateOptions(conf)
    /\ rPc' = "call"
    /\ UNCHANGED <<conf, rGoal, rCtx, stGoal, stSteps, rStep, rParseFailures, rDecision, rTool,
                   rRet, rEvents>>
    /\ UNCHANGED <<allowVars, execVars, regVars, roleVars, jsonVars>>

\* tui_prompts.go:335-344: runInvestigate after operator.Run has returned
InvestigateReturn ==
    /\ rPc = "returned"
    /\ conf.used
    /\ conf' = [conf EXCEPT !.out =
                   IF rRet.err # NilErr /\ rRet.err # ErrMaxStepsReached
                   THEN "error"
                   ELSE IF rRet.err = ErrMaxStepsReached THEN "warning+printed"
                   ELSE "printed"]
    /\ rPc' = "exited"
    /\ UNCHANGED <<rGoal, rCtx, rOpts, stGoal, stSteps, rStep, rParseFailures, rDecision,
                   rTool, rRet, rEvents>>
    /\ UNCHANGED <<allowVars, execVars, regVars, roleVars, jsonVars>>

InitInvestigate ==
    /\ AllowIdle
    /\ ExecIdle
    /\ RegIdle
    /\ RoleIdle
    /\ JsonIdle
    /\ conf \in ConfSet
    /\ rPc = "cli"
    /\ rGoal \in Goals
    /\ rOpts = [MaxSteps |-> 0, DryRun |-> FALSE, Yes |-> FALSE, Denylist |-> <<>>,
                Allowlist |-> <<>>, ConfirmMediumRisk |-> FALSE, ConfirmFunc |-> "nil",
                ShellRunner |-> "nil", MaxOutputBytes |-> 0, MaxParseFailures |-> 0]
    /\ RunBlank

NextInvestigate ==
    \/ RunInvestigate
    \/ Next
    \/ InvestigateReturn

SpecInvestigate == InitInvestigate /\ [][NextInvestigate]_vars

----------------------------------------------------------------------------
(* Inputs of the Allow specification                                       *)

\* longest list of denylist / allowlist entries
MaxListLen == 2

\* commands and list entries; they differ in case and in surrounding blanks
CmdPool ==
    { <<>>, <<" ">>, <<"ls">>, <<" ", "ls">>, <<"Sudo", " ", "ls">>,
      <<"ls", " ", "Sudo">>, <<"df">> }
EntryPool == { <<"sudo">>, <<" ", "LS">> }

AllowTools ==
    {NilTool} \cup [Name : {RunCmdName, "other"}, RiskLevel : RiskLow..RiskCritical]
AllowArgs == {NoArgs} \cup {CmdArgs(c) : c \in CmdPool}
GuardOptionsSet ==
    [Denylist : ListsOf(EntryPool, MaxListLen),
     Allowlist : ListsOf(EntryPool, MaxListLen),
     ConfirmMediumRisk : BOOLEAN, DryRun : BOOLEAN, Yes : BOOLEAN,
     ConfirmFunc : {"nil", "func"}]

NoResult == [allowed |-> FALSE, reason |-> <<"<none>">>, asked |-> <<>>]
\* ConfirmFunc was not called
NoAnswer == [confirmed |-> FALSE, err |-> "<none>"]

InitAllow ==
    /\ RunIdle
    /\ ExecIdle
    /\ RegIdle
    /\ RoleIdle
    /\ JsonIdle
    /\ aPc = "ready"
    /\ aTool \in AllowTools
    /\ aArgs \in AllowArgs
    /\ aOpts \in GuardOptionsSet
    /\ aRes = NoResult
    /\ aPrev = NoResult
    /\ aRet = NoAnswer

\* a caller calls Allow(tool, args, opts)
AllowCall ==
    /\ aPc = "ready"
    /\ \E ret \in ConfirmReturns :
          /\ aRes' = Allow(aTool, aArgs, aOpts, ret)
          /\ aRet' = IF aRes'.asked # <<>> THEN ret ELSE NoAnswer
    /\ aPc' = "done"
    /\ UNCHANGED <<aTool, aArgs, aOpts, aPrev>>
    /\ UNCHANGED <<runVars, execVars, regVars, roleVars, jsonVars>>

\* the caller repeats the call with Yes set
AllowCallYes ==
    /\ aPc = "done"
    /\ ~aOpts.Yes
    /\ aOpts' = [aOpts EXCEPT !.Yes = TRUE]
    /\ \E ret \in ConfirmReturns :
          /\ aRes' = Allow(aTool, aArgs, aOpts', ret)
          /\ aRet' = IF aRes'.asked # <<>> THEN ret ELSE NoAnswer
    /\ aPrev' = aRes
    /\ aPc' = "redone"
    /\ UNCHANGED <<aTool, aArgs>>
    /\ UNCHANGED <<runVars, execVars, regVars, roleVars, jsonVars>>

NextAllow == AllowCall \/ AllowCallYes

SpecAllow == InitAllow /\ [][NextAllow]_vars

----------------------------------------------------------------------------
(* Claims about Allow, checked under SpecAllow                             *)

AllowReturned == aPc \in {"done", "redone"}
OnRunCmd == aTool # NilTool /\ aTool.Name = RunCmdName
aCmd == ArgsGet(aArgs, "cmd")

\* C1: a tool of Critical risk is refused for every args and every
\* GuardOptions, and the confirmation capability is not called.
C1_CriticalAlwaysBlocked ==
    (AllowReturned /\ aTool # NilTool /\ aTool.RiskLevel = RiskCritical)
        => (~aRes.allowed /\ aRes.asked = <<>>)

C1_Witness ==
    /\ aPc = "done"
    /\ aTool # NilTool /\ aTool.RiskLevel = RiskCritical
    /\ aOpts.DryRun /\ aOpts.Yes /\ aOpts.ConfirmFunc = "func"
    /\ ~aRes.allowed

\* the claim's own reading of "the command contains the entry, compared
\* case-insensitively": the texts as given
ContainsFold(cmd, entry) == Contains(ToLower(cmd), ToLower(entry))

\* the same comparison after surrounding white space is dropped on both sides
ContainsFoldTrim(cmd, entry) ==
    Contains(ToLower(TrimSpace(cmd)), ToLower(TrimSpace(entry)))

DenylistReason(i) == <<"command blocked by denylist: ">> \o aOpts.Denylist[i]

\* C2 as stated: on run_cmd, a command that contains a denylist entry is
\* refused with the reason naming the first entry it contains.
C2_Original ==
    LET hits == {i \in 1..Len(aOpts.Denylist) : ContainsFold(aCmd, aOpts.Denylist[i])}
    IN  (AllowReturned /\ OnRunCmd /\ hits # {})
            => (~aRes.allowed /\ aRes.reason = DenylistReason(SetMin(hits)))

\* C2 amended: on run_cmd, a command that contains a denylist entry is
\* refused, whatever the allowlist, dryRun, yes and confirmMediumRisk; and
\* when the tool is not of Critical risk and the trimmed command is not
\* empty, the reason is "command blocked by denylist: <entry>" with <entry>
\* the first entry whose trimmed lower-case form the command contains.
C2_DenylistBlocks ==
    LET hits == {i \in 1..Len(aOpts.Denylist) : ContainsFold(aCmd, aOpts.Denylist[i])}
        hitsTrim ==
            {i \in 1..Len(aOpts.Denylist) : ContainsFoldTrim(aCmd, aOpts.Denylist[i])}
    IN  /\ (AllowReturned /\ OnRunCmd /\ hits # {}) => ~aRes.allowed
        /\ (AllowReturned /\ OnRunCmd /\ hitsTrim # {}
              /\ aTool.RiskLevel # RiskCritical /\ TrimSpace(aCmd) # <<>>)
            => (~aRes.allowed /\ aRes.reason = DenylistReason(SetMin(hitsTrim)))

C2_Witness ==
    /\ aPc = "done" /\ OnRunCmd /\ aTool.RiskLevel = RiskMedium
    /\ aCmd = <<"Sudo", " ", "ls">>
    /\ aOpts.Denylist = << <<" ", "LS">>, <<"sudo">> >>
    /\ aOpts.Allowlist = << <<"sudo">> >>
    /\ aOpts.DryRun /\ aOpts.Yes
    /\ aRes = Blocked(<<"command blocked by denylist: ", " ", "LS">>)

\* the claim's own reading of "the command matches the entry": prefix or
\* substring, compared case-insensitively, the texts as given
MatchesFold(cmd, entry) ==
    HasPrefix(ToLower(cmd), ToLower(entry)) \/ Contains(ToLower(cmd), ToLower(entry))

MatchesFoldTrim(cmd, entry) ==
    \/ HasPrefix(ToLower(TrimSpace(cmd)), ToLower(TrimSpace(entry)))
    \/ Contains(ToLower(TrimSpace(cmd)), ToLower(TrimSpace(entry)))

\* C3 as stated: on run_cmd with a non-empty allowlist, a command that
\* matches no entry is refused.
C3_Original ==
    (AllowReturned /\ OnRunCmd /\ Len(aOpts.Allowlist) > 0
        /\ \A i \in 1..Len(aOpts.Allowlist) : ~MatchesFold(aCmd, aOpts.Allowlist[i]))
        => ~aRes.allowed

\* C3 amended: on run_cmd with a non-empty allowlist, a command that matches
\* no entry is refused, where command and entries are compared after their
\* surrounding white space is dropped; also with an empty denylist and for
\* every dryRun, yes and confirmMediumRisk.
C3_AllowlistBlocks ==
    (AllowReturned /\ OnRunCmd /\ Len(aOpts.Allowlist) > 0
        /\ \A i \in 1..Len(aOpts.Allowlist) : ~MatchesFoldTrim(aCmd, aOpts.Allowlist[i]))
        => ~aRes.allowed

C3_Witness ==
    /\ aPc = "done" /\ OnRunCmd /\ aTool.RiskLevel = RiskLow
    /\ aCmd = <<"df">>
    /\ aOpts.Denylist = <<>>
    /\ aOpts.Allowlist = << <<"sudo">>, <<" ", "LS">> >>
    /\ aOpts.DryRun /\ aOpts.Yes /\ ~aOpts.ConfirmMediumRisk
    /\ aRes = Blocked(<<"command not in allowlist">>)

\* C7: Allow does not call the confirmation capability when dryRun is set,
\* nor when yes is set.
C7_NoConfirmWhenDryRunOrYes ==
    (AllowReturned /\ (aOpts.DryRun \/ aOpts.Yes)) => aRes.asked = <<>>

C7_Witness ==
    /\ aPc = "redone"
    /\ aPrev.asked = << <<"Run command: ", "ls">> >>
    /\ aOpts.Yes /\ aOpts.ConfirmMediumRisk /\ aOpts.ConfirmFunc = "func"
    /\ ~aOpts.DryRun
    /\ aRes = Allowed

IsConfirmBlock(r) ==
    /\ ~r.allowed
    /\ \/ r.reason = <<"user declined">>
       \/ (Len(r.reason) > 0 /\ r.reason[1] = "confirmation failed: ")

\* C8: setting yes changes the outcome of a call only from a confirmation
\* block to allowed; a call refused for another reason is refused with the
\* same reason.
C8_YesOnlyLiftsConfirmation ==
    aPc = "redone" =>
        /\ (aRes.allowed # aPrev.allowed \/ aRes.reason # aPrev.reason)
              => (IsConfirmBlock(aPrev) /\ aRes.allowed)
        /\ (~aPrev.allowed /\ ~IsConfirmBlock(aPrev))
              => (~aRes.allowed /\ aRes.reason = aPrev.reason)

C8_Witness ==
    /\ aPc = "redone"
    /\ aPrev = Blocked(<<"command not in allowlist">>)
    /\ aRes = aPrev
    /\ aOpts.ConfirmMediumRisk /\ aOpts.ConfirmFunc = "func" /\ ~aOpts.DryRun

----------------------------------------------------------------------------
(* Claims about Run, checked under Spec                                    *)

EventIdx == 1..Len(rEvents)
Returned == rPc \in {"returned", "exited"}

IsDecideEv(e) == e.ev = "decide"
Decides == SelectSeq(rEvents, IsDecideEv)

\* the events of iteration k that precede position i
Before(i, k, ev) == {j \in 1..(i - 1) : rEvents[j].ev = ev /\ rEvents[j].step = k}

\* C4: with DryRun the executor and the shell runner are never called; a
\* tool decision that passed the guard only appends the observation
\* "dry_run: Would run: <name> <cmd>", and the loop goes on.
C4_DryRunNeverExecutes ==
    /\ [](rOpts.DryRun => \A i \in EventIdx : rEvents[i].ev \notin {"exec", "shell"})
    /\ [][(rPc = "allowed" /\ rOpts.DryRun) =>
            /\ stSteps' = Append(stSteps,
                   [Role |-> "user",
                    Content |-> <<"dry_run: Would run: ", rDecision.Name, " ">>
                                    \o rDecision.Args["cmd"]])
            /\ rPc' = "loop"
            /\ rStep' = rStep + 1
            /\ rEvents' = rEvents]_vars

C4_Witness ==
    /\ rOpts.DryRun /\ rOpts.Yes /\ rOpts.MaxSteps = 2
    /\ rPc = "loop" /\ rStep = 1
    /\ Len(stSteps) = 2
    /\ stSteps[2] = [Role |-> "user",
                     Content |-> <<"dry_run: Would run: ", "run_cmd", " ", "ls">>]

\* C5: in every iteration the executor is called at most once, and only
\* after, in the same iteration, a tool decision was made, its tool was found
\* in the registry and Allow returned allowed=true for that tool and those
\* args, and only when DryRun is false; an unknown or blocked tool call is
\* not executed.
C5_ExecuteOnlyWhenAllowed ==
    /\ \A i, j \in EventIdx :
          (rEvents[i].ev = "exec" /\ rEvents[j].ev = "exec"
              /\ rEvents[i].step = rEvents[j].step) => i = j
    /\ \A i \in EventIdx : rEvents[i].ev = "exec" =>
          LET k == rEvents[i].step
          IN  /\ ~rOpts.DryRun
              /\ \E d \in Before(i, k, "decide") :
                    /\ rEvents[d].ok /\ rEvents[d].text = <<"tool">>
                    /\ rEvents[d].name = rEvents[i].name
                    /\ rEvents[d].args = rEvents[i].args
              /\ \E l \in Before(i, k, "lookup") :
                    rEvents[l].ok /\ rEvents[l].name = rEvents[i].name
              /\ \E g \in Before(i, k, "guard") :
                    /\ rEvents[g].ok
                    /\ rEvents[g].name = rEvents[i].name
                    /\ rEvents[g].args = rEvents[i].args
    /\ \A i \in EventIdx :
          (rEvents[i].ev \in {"lookup", "guard"} /\ ~rEvents[i].ok) =>
              \A j \in EventIdx :
                  rEvents[j].ev \in {"exec", "shell"} => rEvents[j].step # rEvents[i].step

C5_Witness ==
    /\ Len(rEvents) >= 7
    /\ \E i, j \in EventIdx :
          /\ rEvents[i].ev = "guard" /\ ~rEvents[i].ok /\ rEvents[i].step = 0
          /\ rEvents[j].ev = "exec" /\ rEvents[j].step = 1

\* C9: Run returns a nil error exactly when the planner gave a valid
\* "answer" decision; the string returned is then that decision's content
\* trimmed, and after that decision Run calls nothing more.
C9_AnswerIsOnlySuccess ==
    /\ Returned =>
          /\ (rRet.err = NilErr) <=>
                (\E i \in EventIdx : rEvents[i].ev = "decide" /\ rEvents[i].ok
                                        /\ rEvents[i].text = <<"answer">>)
          /\ rRet.err = NilErr =>
                /\ stSteps[Len(stSteps)].Role = "assistant"
                /\ rRet.answer =
                      TrimSpace(Member(stSteps[Len(stSteps)].Content, "content", <<>>))
    /\ \A i \in EventIdx :
          (rEvents[i].ev = "decide" /\ rEvents[i].ok /\ rEvents[i].text = <<"answer">>) =>
              /\ Returned
              /\ i = Len(rEvents) - 1
              /\ rEvents[i + 1].ev = "return"
              /\ rEvents[i].step < rOpts.MaxSteps

C9_Witness ==
    /\ rPc = "returned"
    /\ rRet = [answer |-> <<"done">>, err |-> NilErr]
    /\ Len(stSteps) = 3
    /\ \E i \in EventIdx : rEvents[i].ev = "exec"

\* the decide calls that failed since the last one that succeeded
TrailingFailures ==
    LET oks == {i \in 1..Len(Decides) : Decides[i].ok}
    IN  Len(Decides) - (IF oks = {} THEN 0 ELSE SetMax(oks))

LastAssistantOrGoal ==
    IF \E i \in 1..Len(stSteps) : stSteps[i].Role = "assistant"
    THEN LET i == CHOOSE i \in 1..Len(stSteps) :
                      /\ stSteps[i].Role = "assistant"
                      /\ \A j \in (i + 1)..Len(stSteps) : stSteps[j].Role = "user"
         IN  stSteps[i].Content
    ELSE stGoal

\* C10: when Run has made maxSteps iterations without an answer and without
\* stopping on parse failures, it returns ErrMaxStepsReached with the content
\* of the most recent assistant step, or the goal if there is none.  With
\* MaxSteps=1, one allowed run_cmd decision and a runner returning "ok", the
\* state holds the assistant step and one observation containing "ok", and
\* Run returns the assistant content with ErrMaxStepsReached.
C10_MaxStepsReturnsPartial ==
    /\ (Returned /\ Len(Decides) = rOpts.MaxSteps
          /\ (~\E i \in 1..Len(Decides) : Decides[i].ok /\ Decides[i].text = <<"answer">>)
          /\ TrailingFailures < rOpts.MaxParseFailures)
        => rRet = [answer |-> LastAssistantOrGoal, err |-> ErrMaxStepsReached]
    /\ (Returned /\ rRet.err = ErrMaxStepsReached)
        => (Len(Decides) = rOpts.MaxSteps /\ rRet.answer = LastAssistantOrGoal)
    /\ (Returned /\ rOpts.MaxSteps = 1
          /\ \E i \in EventIdx : rEvents[i].ev = "shell" /\ rEvents[i].text = <<"o", "k">>)
        => /\ Len(stSteps) = 2
           /\ stSteps[1].Role = "assistant"
           /\ stSteps[2].Role = "user"
           /\ Contains(stSteps[2].Content, <<"o", "k">>)
           /\ rRet = [answer |-> stSteps[1].Content, err |-> ErrMaxStepsReached]

C10_Witness ==
    /\ rPc = "returned" /\ rOpts.MaxSteps = 1
    /\ rRet.err = ErrMaxStepsReached
    /\ Len(stSteps) = 2
    /\ stSteps[2] = [Role |-> "user", Content |-> <<"stdout:", "\n", "o", "k">>]
    /\ rRet.answer = stSteps[1].Content

----------------------------------------------------------------------------
(* Claims about the investigate command, checked under SpecInvestigate     *)

\* C6: when the configuration key operator.dry_run is true, the investigate
\* command passes DryRun=true to Run and never runs a shell command, also
\* without the --dry-run flag.
C6_ConfigDryRunHonoured ==
    conf.cfgDryRun =>
        /\ rPc \notin {"cli"} => rOpts.DryRun
        /\ \A i \in EventIdx : rEvents[i].ev # "shell"

----------------------------------------------------------------------------
(* Run with the default limits, every step of it eventually taken          *)

\* replies of the completion capability in the runs with default limits
LimitReplies ==
    { [sendErr |-> NilErr, body |-> [text |-> <<"Sure!">>]],
      [sendErr |-> NilErr,
       body |-> [action |-> "tool", name |-> RunCmdName, args |-> CmdArgs(<<"ls">>)]],
      [sendErr |-> NilErr, body |-> [action |-> "answer", content |-> <<" ", "done", "\n">>]] }

\* RunOptions whose MaxSteps and MaxParseFailures include the values <= 0
LimitOptionsSet ==
    { [MaxSteps |-> n, DryRun |-> d, Yes |-> FALSE, Denylist |-> << <<"sudo">> >>,
       Allowlist |-> <<>>, ConfirmMediumRisk |-> FALSE, ConfirmFunc |-> "nil",
       ShellRunner |-> "nil", MaxOutputBytes |-> 0, MaxParseFailures |-> p] :
        n \in 0..MaxStepsIn, d \in BOOLEAN, p \in {0, 1, 3} }

InitLimits ==
    /\ AllowIdle
    /\ ExecIdle
    /\ RegIdle
    /\ RoleIdle
    /\ JsonIdle
    /\ conf = NoConf
    /\ rPc = "call"
    /\ rGoal \in Goals
    /\ rOpts \in LimitOptionsSet
    /\ RunBlank

NextLimits ==
    \/ RunEnter
    \/ \E reply \in LimitReplies : PlannerDecide(reply)
    \/ Lookup
    \/ \E ret \in ConfirmReturns : Guard(ret)
    \/ DryRunStep
    \/ \E out \in ShellReturns : Execute(out)
    \/ MaxStepsExit

\* the planner, the guard and the tools return: a step that can be taken is taken
SpecLimits == InitLimits /\ [][NextLimits]_vars /\ WF_vars(NextLimits)

\* C11: every Run returns; the planner is called at most maxSteps times, 10
\* times when MaxSteps <= 0; a failed planner call uses up an iteration as a
\* successful one does; the loop ends at the step limit or at the limit of
\* consecutive parse failures, whichever is reached first.
C11_RunTerminates ==
    /\ <>Returned
    /\ [][(rPc = "call" /\ rPc' = "loop") =>
             rOpts'.MaxSteps = (IF rOpts.MaxSteps <= 0 THEN 10 ELSE rOpts.MaxSteps)]_vars
    /\ [](rPc # "call" /\ stGoal # <<>> =>
             /\ Len(Decides) <= rOpts.MaxSteps
             /\ rPc = "loop" => Len(Decides) = rStep
             /\ (Returned /\ rRet.err = ErrMaxStepsReached) =>
                   /\ Len(Decides) = rOpts.MaxSteps
                   /\ TrailingFailures < rOpts.MaxParseFailures
             /\ (Returned /\ rRet.err \notin {NilErr, ErrMaxStepsReached}) =>
                   /\ TrailingFailures = rOpts.MaxParseFailures
                   /\ ~Decides[Len(Decides)].ok)

C11_Witness ==
    /\ Returned
    /\ rRet.err = ErrMaxStepsReached
    /\ rOpts.MaxSteps = 10
    /\ Len(Decides) = 10
    /\ \E i \in 1..10 : ~Decides[i].ok

----------------------------------------------------------------------------
(* Run with failed and successful planner calls in turn                    *)

\* MaxSteps of the runs in which parse failures alternate with decisions
MaxStepsParse == 3

ParseOptionsSet ==
    { [MaxSteps |-> MaxStepsParse, DryRun |-> d, Yes |-> FALSE,
       Denylist |-> << <<"sudo">> >>, Allowlist |-> <<>>, ConfirmMediumRisk |-> FALSE,
       ConfirmFunc |-> "nil", ShellRunner |-> "nil", MaxOutputBytes |-> 0,
       MaxParseFailures |-> p] :
        d \in BOOLEAN, p \in {-1, 0, 1, 2, 3} }

InitParse ==
    /\ AllowIdle
    /\ ExecIdle
    /\ RegIdle
    /\ RoleIdle
    /\ JsonIdle
    /\ conf = NoConf
    /\ rPc = "call"
    /\ rGoal \in Goals
    /\ rOpts \in ParseOptionsSet
    /\ RunBlank

SpecParse == InitParse /\ [][Next]_vars

IsInvalidResponse(step) ==
    /\ step.Role = "user"
    /\ Len(step.Content) >= 3
    /\ step.Content[1] = "error: Invalid response: "
    /\ step.Content[Len(step.Content)] = ". Respond with valid JSON only."

IsParseFailureErr(err) == Len(err) >= 2 /\ err[1] = "repeated parse failures: "

\* C12: the parse-failure counter counts the consecutive failed Decide calls:
\* a failure appends one corrective observation and adds one; Run returns
\* LastAnswerOrPartial() with a parse-failure error exactly when the counter
\* reaches maxParseFailures (2 when <= 0); a successful Decide, also one whose
\* tool is unknown or blocked, sets the counter to zero.
C12_ConsecutiveParseFailures ==
    /\ [][(rPc = "call" /\ rPc' = "loop") =>
             rOpts'.MaxParseFailures =
                 (IF rOpts.MaxParseFailures <= 0 THEN 2 ELSE rOpts.MaxParseFailures)]_vars
    /\ [][Len(Decides') = Len(Decides) + 1 =>
             IF Decides'[Len(Decides')].ok
             THEN rParseFailures' = 0
             ELSE /\ rParseFailures' = rParseFailures + 1
                  /\ Len(stSteps') = Len(stSteps) + 1
                  /\ SubSeq(stSteps', 1, Len(stSteps)) = stSteps
                  /\ IsInvalidResponse(stSteps'[Len(stSteps')])]_vars
    /\ [](rPc # "call" /\ stGoal # <<>> =>
             /\ rParseFailures = TrailingFailures
             /\ rParseFailures <= rOpts.MaxParseFailures
             /\ rParseFailures = rOpts.MaxParseFailures <=>
                   (Returned /\ IsParseFailureErr(rRet.err))
             /\ (Returned /\ IsParseFailureErr(rRet.err)) =>
                   rRet.answer = LastAssistantOrGoal)

C12_Witness ==
    /\ rPc = "loop" /\ rStep = 3
    /\ rOpts.MaxParseFailures = 2
    /\ Len(Decides) = 3
    /\ ~Decides[1].ok /\ Decides[2].ok /\ ~Decides[3].ok
    /\ \E i \in EventIdx : rEvents[i].ev \in {"lookup", "guard"} /\ ~rEvents[i].ok
    /\ rParseFailures = 1

----------------------------------------------------------------------------
(* Run with a context that is cancelled during one of its calls            *)

\* the context is cancelled while the planner call ("decide") or the tool
\* execution ("exec") of iteration `at` is in flight
CtxSet ==
    {NoCancel} \cup [at : 0..(MaxStepsIn - 1), in : {"decide", "exec"}]

\* what a ShellRunner returns for a command whose context is cancelled:
\* exec.CommandContext kills the process (tui_prompts.go:691-719), another
\* runner may return ctx.Err()
CancelledShellReturns ==
    { [stdout |-> <<>>, stderr |-> <<>>,
       err |-> <<"command failed with exit code -1", ": signal: killed">>],
      [stdout |-> <<>>, stderr |-> <<>>, err |-> <<"context canceled">>] }

CancelOptionsSet ==
    { [MaxSteps |-> n, DryRun |-> d, Yes |-> FALSE, Denylist |-> <<>>, Allowlist |-> <<>>,
       ConfirmMediumRisk |-> FALSE, ConfirmFunc |-> "nil", ShellRunner |-> "runner",
       MaxOutputBytes |-> 0, MaxParseFailures |-> p] :
        n \in 1..MaxStepsIn, d \in BOOLEAN, p \in {0, 1} }

InitCancel ==
    /\ AllowIdle
    /\ ExecIdle
    /\ RegIdle
    /\ RoleIdle
    /\ JsonIdle
    /\ conf = NoConf
    /\ rPc = "call"
    /\ rGoal \in Goals
    /\ rCtx \in CtxSet
    /\ rOpts \in CancelOptionsSet
    /\ stGoal = <<>>
    /\ stSteps = <<>>
    /\ rStep = 0
    /\ rParseFailures = 0
    /\ rDecision = NoDecision
    /\ rTool = NilTool
    /\ rRet = NoRet
    /\ rEvents = <<>>

\* Decide does not pass ctx to sendReq (planner.go:77): the completion call
\* returns what it returns.  The ShellRunner gets ctx (tools.go:75).
NextCancel ==
    \/ RunEnter
    \/ \E reply \in Replies : PlannerDecide(reply)
    \/ Lookup
    \/ \E ret \in ConfirmReturns : Guard(ret)
    \/ DryRunStep
    \/ \E out \in (IF rCtx = [at |-> rStep, in |-> "exec"]
                   THEN CancelledShellReturns ELSE ShellReturns) : Execute(out)
    \/ MaxStepsExit

SpecCancel == InitCancel /\ [][NextCancel]_vars

\* the call of Run that was in flight when the context was cancelled
CancelledCall(i) ==
    /\ rCtx # NoCancel
    /\ rEvents[i].step = rCtx.at
    /\ rEvents[i].ev = (IF rCtx.in = "decide" THEN "decide" ELSE "shell")

\* C13: when the context is cancelled during a completion call or a tool
\* execution, Run returns the cancellation error; it does not go on, and it
\* makes no planner call and no tool execution after the cancelled call.
C13_CancellationEndsRun ==
    \A i \in EventIdx : CancelledCall(i) =>
        /\ Returned
        /\ rRet.err = <<"context canceled">>
        /\ \A j \in (i + 1)..Len(rEvents) : rEvents[j].ev \notin {"decide", "exec", "shell"}

----------------------------------------------------------------------------
(* Claims about Run, checked under Spec (continued)                        *)

\* an execution whose ShellRunner returned an error
IsFailedExecution(i) == rEvents[i].ev = "shell" /\ ~rEvents[i].ok

ExecError == <<"error: ", "command failed with exit code 2">>

\* C14: an error of a tool execution does not make Run return and is not
\* retried: the tool is executed once for the decision, the error text is
\* part of the one observation appended, and the loop goes on with a new
\* planner call or leaves at the step limit.
C14_ExecutionErrorIsObserved ==
    /\ [][(Len(rEvents') > Len(rEvents) /\ rEvents'[Len(rEvents')].ev = "shell"
              /\ ~rEvents'[Len(rEvents')].ok) =>
             /\ rPc' = "loop"
             /\ rStep' = rStep + 1
             /\ rRet' = rRet
             /\ Len(stSteps') = Len(stSteps) + 1
             /\ SubSeq(stSteps', 1, Len(stSteps)) = stSteps
             /\ stSteps'[Len(stSteps')].Role = "user"
             /\ Contains(stSteps'[Len(stSteps')].Content, ExecError)]_vars
    /\ [](\A i \in EventIdx : IsFailedExecution(i) =>
             /\ Cardinality({j \in EventIdx : rEvents[j].ev \in {"exec"}
                                                /\ rEvents[j].step = rEvents[i].step}) = 1
             /\ Cardinality({j \in EventIdx : rEvents[j].ev \in {"shell"}
                                                /\ rEvents[j].step = rEvents[i].step}) = 1
             /\ i < Len(rEvents) =>
                   \/ rEvents[i + 1].ev = "decide" /\ rEvents[i + 1].step = rEvents[i].step + 1
                   \/ /\ rEvents[i + 1].ev = "return"
                      /\ rEvents[i + 1].step = rOpts.MaxSteps
                      /\ rRet.err = ErrMaxStepsReached)

C14_Witness ==
    /\ rPc = "decided"
    /\ \E i \in EventIdx :
          /\ IsFailedExecution(i) /\ rEvents[i].step = 0
          /\ i + 1 = Len(rEvents)
          /\ rEvents[i + 1].ev = "decide" /\ rEvents[i + 1].step = 1
    /\ stSteps[2] = [Role |-> "user",
                     Content |-> <<"stderr:", "\n", "E", "\n">> \o ExecError]

\* the reply with another reasoning text, all else equal
OtherReasoning(body) ==
    IF "reasoning" \in DOMAIN body THEN [body EXCEPT !["reasoning"] = <<"other">>] ELSE body

\* the steps of the run whose planner gave the same replies with other
\* reasoning texts: Run reads no Reasoning field but for debug output
\* (loop.go:79-81), so the two runs differ in the stored raw replies only
TwinSteps ==
    [i \in 1..Len(stSteps) |->
        IF stSteps[i].Role = "assistant"
        THEN [Role |-> "assistant", Content |-> OtherReasoning(stSteps[i].Content)]
        ELSE stSteps[i]]

\* C15: the reasoning text of a decision is not fed back to the model: the
\* messages of a later planner call do not depend on the reasoning of an
\* earlier decision (two runs that differ only in reasoning texts send the
\* same later prompts).
C15_ReasoningNotFedBack ==
    (rPc = "loop" /\ rStep < rOpts.MaxSteps) =>
        buildMessages(stGoal, stSteps) = buildMessages(stGoal, TwinSteps)

\* C16: Run with an empty or whitespace-only goal returns an error at once:
\* no conversation step is made and the planner, the guard and the tools are
\* not called.
C16_EmptyGoalRejected ==
    ((\A i \in 1..Len(rGoal) : IsSpace(rGoal[i])) /\ rPc # "call") =>
        /\ Returned
        /\ rRet = [answer |-> <<>>, err |-> <<"goal cannot be empty">>]
        /\ stSteps = <<>>
        /\ stGoal = <<>>
        /\ rStep = 0
        /\ \A i \in EventIdx : rEvents[i].ev = "return"

C16_Witness ==
    /\ rGoal = <<" ">>
    /\ rPc = "returned"
    /\ rRet.err = <<"goal cannot be empty">>
    /\ Len(rEvents) = 1

----------------------------------------------------------------------------
(* State used on its own: AppendObservation, AppendDecision,               *)
(* LastAnswerOrPartial                                                     *)

\* most steps of a State
MaxStateSteps == 3

StateGoals == { <<"why">>, <<>> }
StateContents == { <<"a">>, <<"b">>, <<>> }

InitState ==
    /\ AllowIdle
    /\ ExecIdle
    /\ RegIdle
    /\ RoleIdle
    /\ JsonIdle
    /\ conf = NoConf
    /\ rPc = "state"
    /\ rGoal = <<>>
    /\ rOpts = [MaxSteps |-> 0, DryRun |-> FALSE, Yes |-> FALSE, Denylist |-> <<>>,
                Allowlist |-> <<>>, ConfirmMediumRisk |-> FALSE, ConfirmFunc |-> "nil",
                ShellRunner |-> "nil", MaxOutputBytes |-> 0, MaxParseFailures |-> 0]
    /\ rCtx = NoCancel
    /\ stGoal \in StateGoals
    /\ stSteps = <<>>
    /\ rStep = 0
    /\ rParseFailures = 0
    /\ rDecision = NoDecision
    /\ rTool = NilTool
    /\ rRet = NoRet
    /\ rEvents = <<>>

\* s.AppendObservation(content)
StateAppendObservation(content) ==
    /\ rPc \in {"state", "asked"}
    /\ Len(stSteps) < MaxStateSteps
    /\ stSteps' = AppendObservation(stSteps, content)
    /\ rPc' = "state"
    /\ UNCHANGED <<conf, rGoal, rCtx, rOpts, stGoal, rStep, rParseFailures, rDecision, rTool,
                   rRet, rEvents>>
    /\ UNCHANGED <<allowVars, execVars, regVars, roleVars, jsonVars>>

\* s.AppendDecision(raw)
StateAppendDecision(raw) ==
    /\ rPc \in {"state", "asked"}
    /\ Len(stSteps) < MaxStateSteps
    /\ stSteps' = AppendDecision(stSteps, raw)
    /\ rPc' = "state"
    /\ UNCHANGED <<conf, rGoal, rCtx, rOpts, stGoal, rStep, rParseFailures, rDecision, rTool,
                   rRet, rEvents>>
    /\ UNCHANGED <<allowVars, execVars, regVars, roleVars, jsonVars>>

\* s.LastAnswerOrPartial(): the result is kept in rRet.answer
StateLastAnswerOrPartial ==
    /\ rPc = "state"
    /\ rRet' = [answer |-> LastAnswerOrPartial(stGoal, stSteps), err |-> NilErr]
    /\ rPc' = "asked"
    /\ UNCHANGED <<conf, rGoal, rCtx, rOpts, stGoal, stSteps, rStep, rParseFailures,
                   rDecision, rTool, rEvents>>
    /\ UNCHANGED <<allowVars, execVars, regVars, roleVars, jsonVars>>

NextState ==
    \/ \E content \in StateContents : StateAppendObservation(content)
    \/ \E raw \in StateContents : StateAppendDecision(raw)
    \/ StateLastAnswerOrPartial

SpecState == InitState /\ [][NextState]_vars

\* C17: LastAnswerOrPartial returns the content of the most recent assistant
\* step, however many user steps follow it, and exactly the goal when the
\* state has no assistant step; it leaves the state as it is.
C17_LastAnswerOrPartial ==
    /\ [](rPc = "asked" =>
             /\ (\A i \in 1..Len(stSteps) : stSteps[i].Role # "assistant") =>
                   rRet.answer = stGoal
             /\ \A i \in 1..Len(stSteps) :
                   (/\ stSteps[i].Role = "assistant"
                    /\ \A j \in (i + 1)..Len(stSteps) : stSteps[j].Role = "user")
                       => rRet.answer = stSteps[i].Content)
    /\ [][rPc' = "asked" => (stSteps' = stSteps /\ stGoal' = stGoal)]_vars

C17_Witness ==
    /\ rPc = "asked"
    /\ Len(stSteps) = 3
    /\ stSteps[1] = [Role |-> "assistant", Content |-> <<"a">>]
    /\ stSteps[2] = [Role |-> "user", Content |-> <<"b">>]
    /\ stSteps[3] = [Role |-> "user", Content |-> <<"b">>]
    /\ rRet.answer = <<"a">>

----------------------------------------------------------------------------
(* Executor.Run used on its own                                            *)

\* largest byte limit given to an Executor, apart from the default
MaxLimit == 3
\* longest output of a tool, apart from the outputs around the default limit
MaxOutLen == 4

\* an output of n bytes
Bytes(n) == [i \in 1..n |-> "x"]

\* outputs of a tool: all short ones over two bytes, and those of
\* MaxOutputBytes and MaxOutputBytes + 1 bytes
Outputs ==
    UNION {[1..n -> {"x", "y"}] : n \in 0..MaxOutLen}
        \cup {Bytes(MaxOutputBytes), Bytes(MaxOutputBytes + 1)}

\* Executors made by NewExecutor(arg) or as Executor{MaxOutputBytes: arg}
Executors ==
    {[arg |-> n, MaxOutputBytes |-> NewExecutor(n)] : n \in (-1)..MaxLimit}
        \cup {[arg |-> n, MaxOutputBytes |-> n] : n \in (-1)..MaxLimit}

InitExec ==
    /\ AllowIdle
    /\ RunIdle
    /\ RegIdle
    /\ RoleIdle
    /\ JsonIdle
    /\ xPc = "ready"
    /\ xExecutor \in Executors
    /\ xOut \in [stdout : Outputs, stderr : Outputs,
                 err : {NilErr, <<"command failed with exit code 2">>}]
    /\ xRes = NoRunnerReturn

\* e.Run(ctx, tool, args) for a tool whose Exec returns xOut
ExecutorRun ==
    /\ xPc = "ready"
    /\ xRes' = [stdout |-> truncate(xExecutor.MaxOutputBytes, xOut.stdout),
                stderr |-> truncate(xExecutor.MaxOutputBytes, xOut.stderr),
                err |-> xOut.err]
    /\ xPc' = "done"
    /\ UNCHANGED <<xExecutor, xOut>>
    /\ UNCHANGED <<allowVars, runVars, regVars, roleVars, jsonVars>>

NextExec == ExecutorRun

SpecExec == InitExec /\ [][NextExec]_vars

\* the output s cut to the limit L
CutTo(L, s) ==
    IF Len(s) <= L THEN s
    ELSE [i \in 1..(L + 12) |->
             IF i <= L THEN s[i]
             ELSE <<"\n", "(", "t", "r", "u", "n", "c", "a", "t", "e", "d", ")">>[i - L]]

----------------------------------------------------------------------------
(* One Registry called by several goroutines: Register, Get, List          *)

\* number of calls made on the Registry by all goroutines together
MaxCalls == 3

Procs == {"g1", "g2", "g3"}

\* tools to register: two different tools of one name, one of another name
RegTools ==
    { [Name |-> "a", RiskLevel |-> RiskLow], [Name |-> "a", RiskLevel |-> RiskHigh],
      [Name |-> "b", RiskLevel |-> RiskLow] }
\* names looked up with Get
RegNames == {"a"}

RegCalls ==
    {[op |-> "Register", tool |-> t, name |-> t.Name] : t \in RegTools \cup {NilTool}}
        \cup {[op |-> "Get", tool |-> NilTool, name |-> n] : n \in RegNames}
        \cup {[op |-> "List", tool |-> NilTool, name |-> ""]}

NoCall == [op |-> "none", tool |-> NilTool, name |-> ""]
NoNames == {}

ProcIdle == [pc |-> "idle", call |-> NoCall, inv |-> 0, at |-> 0, tool |-> NilTool,
             names |-> NoNames]

\* sync.RWMutex: Lock waits for the writer and the readers to have left
CanLockMutIgnoreReaders(mu) == mu.writer = {}
CanLock(mu) == mu.writer = {} /\ mu.readers = {}
\* sync.RWMutex: RLock waits for the writer to have left
CanRLock(mu) == mu.writer = {}

\* r.tools[name], nil when the key is absent
MapGet(tools, name) == IF name \in DOMAIN tools THEN tools[name] ELSE NilTool
\* r.tools[t.Name] = t
MapSet(tools, t) ==
    [n \in DOMAIN tools \cup {t.Name} |-> IF n = t.Name THEN t ELSE tools[n]]

\* NewRegistry(), and the goroutines that will call it
InitReg ==
    /\ AllowIdle
    /\ RunIdle
    /\ ExecIdle
    /\ RoleIdle
    /\ JsonIdle
    /\ gTools = <<>>
    /\ gMu = [writer |-> {}, readers |-> {}]
    /\ gProc = [p \in Procs |-> ProcIdle]
    /\ gHist = <<>>
    /\ gDone = <<>>
    /\ gCalls = 0

Returns(p) == Append(gDone, [proc |-> p, call |-> gProc[p].call, inv |-> gProc[p].inv,
                             at |-> gProc[p].at, ret |-> Len(gHist),
                             tool |-> gProc[p].tool, names |-> gProc[p].names])

\* goroutine p calls Register, Get or List
RegCall(p, call) ==
    /\ gProc[p].pc = "idle"
    /\ gCalls < MaxCalls
    /\ gCalls' = gCalls + 1
    /\ gProc' = [gProc EXCEPT ![p] = [ProcIdle EXCEPT !.pc = "called", !.call = call,
                                                      !.inv = Len(gHist)]]
    /\ UNCHANGED <<gTools, gMu, gHist, gDone>>
    /\ UNCHANGED <<allowVars, runVars, execVars, roleVars, jsonVars>>

\* tools.go:35-37
RegisterNil(p) ==
    /\ gProc[p].pc = "called"
    /\ gProc[p].call.op = "Register"
    /\ gProc[p].call.tool = NilTool
    /\ gDone' = Returns(p)
    /\ gProc' = [gProc EXCEPT ![p] = ProcIdle]
    /\ UNCHANGED <<gTools, gMu, gHist, gCalls>>
    /\ UNCHANGED <<allowVars, runVars, execVars, roleVars, jsonVars>>

\* tools.go:38
Lock(p) ==
    /\ gProc[p].pc = "called"
    /\ gProc[p].call.op = "Register"
    /\ gProc[p].call.tool # NilTool
    /\ CanLock(gMu)
    /\ gMu' = [gMu EXCEPT !.writer = {p}]
    /\ gProc' = [gProc EXCEPT ![p].pc = "locked"]
    /\ UNCHANGED <<gTools, gHist, gDone, gCalls>>
    /\ UNCHANGED <<allowVars, runVars, execVars, roleVars, jsonVars>>

\* tools.go:40
RegisterWrite(p) ==
    /\ gProc[p].pc = "locked"
    /\ gTools' = MapSet(gTools, gProc[p].call.tool)
    /\ gHist' = Append(gHist, [by |-> p, tool |-> gProc[p].call.tool])
    /\ gProc' = [gProc EXCEPT ![p].pc = "written", ![p].at = Len(gHist) + 1]
    /\ UNCHANGED <<gMu, gDone, gCalls>>
    /\ UNCHANGED <<allowVars, runVars, execVars, roleVars, jsonVars>>

\* tools.go:39, the deferred Unlock, and the return of Register
Unlock(p) ==
    /\ gProc[p].pc = "written"
    /\ gMu' = [gMu EXCEPT !.writer = {}]
    /\ gDone' = Returns(p)
    /\ gProc' = [gProc EXCEPT ![p] = ProcIdle]
    /\ UNCHANGED <<gTools, gHist, gCalls>>
    /\ UNCHANGED <<allowVars, runVars, execVars, roleVars, jsonVars>>

\* tools.go:45 and 52
RLock(p) ==
    /\ gProc[p].pc = "called"
    /\ gProc[p].call.op \in {"Get", "List"}
    /\ CanRLock(gMu)
    /\ gMu' = [gMu EXCEPT !.readers = @ \cup {p}]
    /\ gProc' = [gProc EXCEPT ![p].pc = "rlocked"]
    /\ UNCHANGED <<gTools, gHist, gDone, gCalls>>
    /\ UNCHANGED <<allowVars, runVars, execVars, roleVars, jsonVars>>

\* tools.go:47
GetRead(p) ==
    /\ gProc[p].pc = "rlocked"
    /\ gProc[p].call.op = "Get"
    /\ gProc' = [gProc EXCEPT ![p].pc = "read", ![p].at = Len(gHist),
                              ![p].tool = MapGet(gTools, gProc[p].call.name)]
    /\ UNCHANGED <<gTools, gMu, gHist, gDone, gCalls>>
    /\ UNCHANGED <<allowVars, runVars, execVars, roleVars, jsonVars>>

\* tools.go:54-58; the names are kept as a set, their order is not fixed
ListRead(p) ==
    /\ gProc[p].pc = "rlocked"
    /\ gProc[p].call.op = "List"
    /\ gProc' = [gProc EXCEPT ![p].pc = "read", ![p].at = Len(gHist),
                              ![p].names = DOMAIN gTools]
    /\ UNCHANGED <<gTools, gMu, gHist, gDone, gCalls>>
    /\ UNCHANGED <<allowVars, runVars, execVars, roleVars, jsonVars>>

\* tools.go:46 and 53, the deferred RUnlock, and the return of Get or List
RUnlock(p) ==
    /\ gProc[p].pc = "read"
    /\ gMu' = [gMu EXCEPT !.readers = @ \ {p}]
    /\ gDone' = Returns(p)
    /\ gProc' = [gProc EXCEPT ![p] = ProcIdle]
    /\ UNCHANGED <<gTools, gHist, gCalls>>
    /\ UNCHANGED <<allowVars, runVars, execVars, roleVars, jsonVars>>

NextReg ==
    \E p \in Procs :
        \/ \E call \in RegCalls : RegCall(p, call)
        \/ RegisterNil(p)
        \/ Lock(p)
        \/ RegisterWrite(p)
        \/ Unlock(p)
        \/ RLock(p)
        \/ GetRead(p)
        \/ ListRead(p)
        \/ RUnlock(p)

SpecReg == InitReg /\ [][NextReg]_vars

\* the last-writer-wins map after the first h writes
WritesOf(n, h) == {i \in 1..h : gHist[i].tool.Name = n}
LatestTool(n, h) == IF WritesOf(n, h) = {} THEN NilTool ELSE gHist[SetMax(WritesOf(n, h))].tool
NamesAfter(h) == {gHist[i].tool.Name : i \in 1..h}

InWrite(p) == gProc[p].pc \in {"locked", "written"}
InRead(p) == gProc[p].pc \in {"rlocked", "read"}

\* C19: concurrent Register, Get and List calls on one Registry are
\* linearizable as operations on a last-writer-wins map from names to tools:
\* a Register is in its critical section with no other Register, Get or List;
\* every call takes effect at one point between its call and its return;
\* Get(name) returns nil when no Register of the name has taken effect and
\* else the tool of the latest one; Register(nil) changes nothing.
C19_RegistryLinearizable ==
    /\ \A p, q \in DOMAIN gProc : (p # q /\ InWrite(p)) => ~(InWrite(q) \/ InRead(q))
    /\ DOMAIN gTools = NamesAfter(Len(gHist))
    /\ \A n \in DOMAIN gTools : gTools[n] = LatestTool(n, Len(gHist))
    /\ \A k \in 1..Len(gDone) :
          LET d == gDone[k]
              mine == {i \in (d.inv + 1)..d.ret : gHist[i].by = d.proc}
          IN  /\ d.call.op = "Get" =>
                    /\ d.inv <= d.at /\ d.at <= d.ret /\ mine = {}
                    /\ d.tool = LatestTool(d.call.name, d.at)
              /\ d.call.op = "List" =>
                    /\ d.inv <= d.at /\ d.at <= d.ret /\ mine = {}
                    /\ d.names = NamesAfter(d.at)
              /\ (d.call.op = "Register" /\ d.call.tool # NilTool) =>
                    /\ mine = {d.at}
                    /\ gHist[d.at].tool = d.call.tool
              /\ (d.call.op = "Register" /\ d.call.tool = NilTool) => mine = {}

C19_Witness ==
    /\ Len(gHist) = 2
    /\ gHist[1].tool.Name = "a" /\ gHist[2].tool.Name = "a"
    /\ gHist[1].tool # gHist[2].tool
    /\ Len(gDone) = 3
    /\ gDone[3].call.op = "Get" /\ gDone[3].call.name = "a"
    /\ gDone[3].inv = 0
    /\ gDone[3].tool = gHist[2].tool

----------------------------------------------------------------------------
(* Claims about Allow, checked under SpecAllow (continued)                 *)

\* the call is not refused before the confirmation step
PassesChecks ==
    /\ aTool # NilTool
    /\ aTool.RiskLevel # RiskCritical
    /\ OnRunCmd =>
          /\ TrimSpace(aCmd) # <<>>
          /\ \A i \in 1..Len(aOpts.Denylist) : ~ContainsFoldTrim(aCmd, aOpts.Denylist[i])
          /\ \/ aOpts.Allowlist = <<>>
             \/ \E i \in 1..Len(aOpts.Allowlist) : MatchesFoldTrim(aCmd, aOpts.Allowlist[i])

\* C20: for a call that is not critical and passes the empty-command,
\* denylist and allowlist checks, with dryRun=false, risk level >= Medium,
\* confirmMediumRisk=true, yes=false and a confirmation capability: Allow
\* calls the capability once, with "Run command: <cmd>" for run_cmd, and
\* returns allowed=true exactly when it answered true without error; a false
\* answer blocks with "user declined", an error with
\* "confirmation failed: <err>".
C20_ConfirmationDecides ==
    (/\ AllowReturned /\ PassesChecks
     /\ ~aOpts.DryRun /\ aTool.RiskLevel >= RiskMedium /\ aOpts.ConfirmMediumRisk
     /\ ~aOpts.Yes /\ aOpts.ConfirmFunc = "func")
    => /\ Len(aRes.asked) = 1
       /\ OnRunCmd => aRes.asked[1] = <<"Run command: ">> \o aArgs["cmd"]
       /\ aRes.allowed <=> (aRet.confirmed /\ aRet.err = "nil")
       /\ aRes.allowed => aRes.reason = <<>>
       /\ (aRet.err = "nil" /\ ~aRet.confirmed) => aRes.reason = <<"user declined">>
       /\ aRet.err # "nil" => aRes.reason = <<"confirmation failed: ", aRet.err>>

C20_Witness ==
    /\ aPc = "done" /\ OnRunCmd
    /\ aTool.RiskLevel = RiskHigh
    /\ aArgs = CmdArgs(<<" ", "ls">>)
    /\ aOpts.Allowlist = << <<" ", "LS">> >>
    /\ aRet = [confirmed |-> TRUE, err |-> "read error"]
    /\ aRes = [allowed |-> FALSE, reason |-> <<"confirmation failed: ", "read error">>,
               asked |-> << <<"Run command: ", " ", "ls">> >>]

----------------------------------------------------------------------------
(* api/auto_role.go: detectRoleHeuristic                                   *)
(*                                                                         *)
(* A score is a float64 of the program.  The model keeps it as the exact   *)
(* fraction n/d in lowest terms: the scores the program compares are       *)
(* quotients of small integers, doubled or raised by 0.5, and on these     *)
(* float64 rounding does not change the outcome of >, >= against 0.2, 0.4, *)
(* 0.5 and 1.0.  An atom of a message is a word, a blank or a punctuation  *)
(* sign; a keyword is found in a message when its atoms are.               *)

RECURSIVE GCD(_, _)
GCD(a, b) == IF b = 0 THEN a ELSE GCD(b, a % b)

\* the float64 n/d
FracOf(n, d) == LET g == GCD(n, d) IN [n |-> n \div g, d |-> d \div g]

Zero == FracOf(0, 1)
One == FracOf(1, 1)
Half == FracOf(1, 2)

\* x < y, x <= y, x + y, 2.0 * x on scores
Less(x, y) == x.n * y.d < y.n * x.d
Leq(x, y) == x.n * y.d <= y.n * x.d
Plus(x, y) == FracOf(x.n * y.d + y.n * x.d, x.d * y.d)
Double(x) == FracOf(2 * x.n, x.d)

\* if x > 1.0 { x = 1.0 }
Cap(x) == IF Less(One, x) THEN One ELSE x

\* strings.Fields: the maximal runs of atoms that are not white space
Fields(s) ==
    LET starts == {i \in 1..Len(s) : ~IsSpace(s[i]) /\ (i = 1 \/ IsSpace(s[i - 1]))}
        start(k) == CHOOSE i \in starts : Cardinality({j \in starts : j < i}) = k - 1
        end(i) == SetMin({j \in i..Len(s) : j = Len(s) \/ IsSpace(s[j + 1])})
    IN  [k \in 1..Cardinality(starts) |-> SubSeq(s, start(k), end(start(k)))]

\* strings.Join(words, " ")
RECURSIVE Join(_)
Join(words) ==
    IF words = <<>> THEN <<>>
    ELSE IF Len(words) = 1 THEN words[1]
    ELSE LET half == Len(words) \div 2
         IN  Join(SubSeq(words, 1, half)) \o <<" ">>
             \o Join(SubSeq(words, half + 1, Len(words)))

\* strings.Index: the offset of the first occurrence of sub in s, or -1
Index(s, sub) ==
    LET hits == {i \in 0..(Len(s) - Len(sub)) : SubSeq(s, i + 1, i + Len(sub)) = sub}
    IN  IF hits = {} THEN -1 ELSE SetMin(hits)

\* len(s) in bytes
RECURSIVE ByteLen(_)
ByteLen(s) ==
    IF s = <<>> THEN 0
    ELSE IF Len(s) = 1 THEN Len(s[1])
    ELSE LET half == Len(s) \div 2
         IN  ByteLen(SubSeq(s, 1, half)) + ByteLen(SubSeq(s, half + 1, Len(s)))

\* what is left of an atom that a byte offset cuts in two
Fragment == "<part>"

\* s[len(s)-n:] for len(s) > n
LastBytes(s, n) ==
    LET from == SetMin({i \in 1..(Len(s) + 1) : ByteLen(SubSeq(s, i, Len(s))) <= n})
        tail == SubSeq(s, from, Len(s))
    IN  IF ByteLen(tail) = n THEN tail ELSE <<Fragment>> \o tail

RequestWords == 50
RequestBytes == 500

\* auto_role.go:66
MessageLower(message) == ToLower(TrimSpace(message))

\* auto_role.go:67
MessageWords(message) == Fields(MessageLower(message))

\* auto_role.go:71-81
RequestPortion(message) ==
    LET messageLower == MessageLower(message)
        messageWords == MessageWords(message)
    IN  IF Len(messageWords) > RequestWords
        THEN Join(SubSeq(messageWords, Len(messageWords) - RequestWords + 1, Len(messageWords)))
        ELSE IF ByteLen(messageLower) > RequestBytes
             THEN LastBytes(messageLower, RequestBytes)
             ELSE messageLower

\* getRoleKeywords: the configured list, empty when the key is not set
getRoleKeywords(keywords, role) == IF role \in DOMAIN keywords THEN keywords[role] ELSE <<>>

\* strings.Contains(keyword, " ")
IsPhrase(keyword) == \E i \in 1..Len(keyword) : keyword[i] = " "

\* auto_role.go:122-131: all words of the phrase appear in order; "panic" when the
\* slice text[lastIndex+1:] is out of range
RECURSIVE FlexFrom(_, _, _)
FlexFrom(text, phraseWords, lastIndex) ==
    IF phraseWords = <<>> THEN "yes"
    ELSE IF lastIndex + 1 > Len(text) THEN "panic"
    ELSE LET idx == Index(SubSeq(text, lastIndex + 2, Len(text)), Head(phraseWords))
         IN  IF idx = -1 THEN "no"
             ELSE FlexFrom(text, Tail(phraseWords), lastIndex + 1 + idx)

FlexMatch(text, keyword) == FlexFrom(text, Fields(keyword), -1) = "yes"

\* auto_role.go:108-153: what a multi-word keyword adds to phraseMatches
PhraseWeight(keyword, requestPortion, messageLower) ==
    IF Contains(requestPortion, keyword) THEN 4
    ELSE IF Contains(messageLower, keyword) THEN 2
    ELSE IF Len(Fields(keyword)) >= 2
         THEN IF FlexMatch(requestPortion, keyword) THEN 3
              ELSE IF FlexMatch(messageLower, keyword) THEN 1
              ELSE 0
         ELSE 0

\* auto_role.go:167-204
IsPartOfPhrase(keyword, keywords, requestPortion, messageLower) ==
    \E j \in 1..Len(keywords) :
        /\ IsPhrase(keywords[j])
        /\ \E k \in 1..Len(Fields(keywords[j])) : Fields(keywords[j])[k] = keyword
        /\ \/ Contains(requestPortion, keywords[j])
           \/ FlexMatch(requestPortion, keywords[j])
           \/ Contains(messageLower, keywords[j])

\* auto_role.go:160-212: what a single-word keyword adds to matches
SingleWeight(keyword, keywords, requestPortion, messageLower) ==
    IF ~(Contains(requestPortion, keyword) \/ Contains(messageLower, keyword)) THEN 0
    ELSE IF IsPartOfPhrase(keyword, keywords, requestPortion, messageLower) THEN 0
    ELSE IF Contains(requestPortion, keyword) THEN 2
    ELSE 1

RECURSIVE SumSeq(_)
SumSeq(s) == IF s = <<>> THEN 0 ELSE Head(s) + SumSeq(Tail(s))

\* auto_role.go:97-103
QuestionWords == {<<"what">>, <<"explain">>, <<"describe">>, <<"tell">>, <<"how">>}
DescribeBoost(role, messageWords) ==
    IF role = "describe" /\ Len(messageWords) > 0 /\ messageWords[1] \in QuestionWords
    THEN 3 ELSE 0

\* phraseMatches at auto_role.go:216
PhraseMatches(keywords, requestPortion, messageLower) ==
    SumSeq([j \in 1..Len(keywords) |->
              IF IsPhrase(keywords[j])
              THEN PhraseWeight(keywords[j], requestPortion, messageLower) ELSE 0])

\* matches at auto_role.go:216
Matches(role, keywords, message) ==
    LET requestPortion == RequestPortion(message)
        messageLower == MessageLower(message)
    IN  DescribeBoost(role, MessageWords(message))
        + SumSeq([j \in 1..Len(keywords) |->
                    IF IsPhrase(keywords[j])
                    THEN IF PhraseWeight(keywords[j], requestPortion, messageLower) > 0
                         THEN 1 ELSE 0
                    ELSE SingleWeight(keywords[j], keywords, requestPortion, messageLower)])

\* auto_role.go:218-227
BaseScore(role, keywords, message) ==
    LET baseScore == FracOf(Matches(role, keywords, message), Len(keywords))
    IN  IF PhraseMatches(keywords, RequestPortion(message), MessageLower(message)) > 0
        THEN Cap(Double(baseScore))
        ELSE baseScore

\* the roles of availableRoles
RolesOf(availableRoles) == {availableRoles[i] : i \in 1..Len(availableRoles)}

\* auto_role.go:84-229: the scores map after the loop over availableRoles
KeywordScores(message, availableRoles, keywords) ==
    LET scored == {role \in RolesOf(availableRoles) :
                     /\ Len(getRoleKeywords(keywords, role)) > 0
                     /\ Matches(role, getRoleKeywords(keywords, role), message) > 0}
    IN  [role \in scored |-> BaseScore(role, getRoleKeywords(keywords, role), message)]

\* scores[role] of a Go map[string]float64: 0 when role is absent
ScoreGet(scores, role) == IF role \in DOMAIN scores THEN scores[role] ELSE Zero

\* scores[role] = score
ScoreSet(scores, role, score) ==
    [r \in DOMAIN scores \cup {role} |-> IF r = role THEN score ELSE scores[r]]

\* atoms made of letters, digits and underscores only (\w+)
IsWordAtom(a) == a \notin {" ", "\n", "{", "}", "(", ")", ";", "$", "=>", "->", "::"}

CodeWords == {"def", "class", "function", "const", "let", "var", "import", "from", "return",
              "if", "else", "for", "while", "try", "catch",
              "public", "private", "protected", "static", "final", "abstract"}

\* \b on both sides of the atom at position i
AtWordBoundaries(message, i) ==
    /\ i = 1 \/ IsWordAtom(message[i - 1]) # IsWordAtom(message[i])
    /\ i = Len(message) \/ IsWordAtom(message[i + 1]) # IsWordAtom(message[i])

\* auto_role.go:57-62, 232-238: one of codePatterns matches the message
HasCodePattern(message) ==
    \E i \in 1..Len(message) :
        \/ message[i] \in CodeWords /\ AtWordBoundaries(message, i)
        \/ message[i] \in {"{", "}", "(", ")", ";"}
        \/ /\ message[i] \in {"=>", "->", "::"}
           /\ 1 < i /\ i < Len(message)
           /\ IsWordAtom(message[i - 1]) /\ IsWordAtom(message[i + 1])

\* auto_role.go:254
HasCommitKeywords(messageLower) ==
    Contains(messageLower, <<"commit">>) \/ Contains(messageLower, <<"changelog">>)

\* auto_role.go:255
HasBranchKeywords(messageLower) ==
    /\ Contains(messageLower, <<"branch">>)
    /\ \/ Contains(messageLower, <<"create">>)
       \/ Contains(messageLower, <<"new">>)
       \/ Contains(messageLower, <<"generate">>)

\* atoms matching [a-z]+
IsLowerAlpha(a) == IsWordAtom(a) /\ ToLowerChar(a) = a /\ a # Fragment

\* auto_role.go:258: ^\s*\$?\s*[a-z]+(\s+[^\s]+)*\s*$ matches the trimmed message
HasShellShape(message) ==
    LET t == TrimSpace(message)
        u == IF t # <<>> /\ t[1] = "$" THEN TrimSpace(Tail(t)) ELSE t
        first == IF Fields(u) = <<>> THEN <<>> ELSE Fields(u)[1]
    IN  /\ first # <<>>
        /\ \A i \in 1..Len(first) : IsLowerAlpha(first[i])

MaxShellWords == 10

\* auto_role.go:239-250
CodeBonus(scores, message, availableRoles) ==
    IF HasCodePattern(message) /\ "code" \in RolesOf(availableRoles)
    THEN ScoreSet(scores, "code", Cap(Plus(ScoreGet(scores, "code"), Half)))
    ELSE scores

\* auto_role.go:257-270
ShellBonus(scores, message, availableRoles) ==
    IF /\ ~HasCommitKeywords(MessageLower(message))
       /\ ~HasBranchKeywords(MessageLower(message))
       /\ HasShellShape(message)
       /\ Len(MessageWords(message)) > 0
       /\ Len(MessageWords(message)) < MaxShellWords
       /\ "shell" \in RolesOf(availableRoles)
    THEN ScoreSet(scores, "shell", Cap(Plus(ScoreGet(scores, "shell"), Half)))
    ELSE scores

\* auto_role.go:84-270: the scores map before the best role is looked for
Scores(message, availableRoles, keywords) ==
    ShellBonus(CodeBonus(KeywordScores(message, availableRoles, keywords),
                         message, availableRoles),
               message, availableRoles)

\* auto_role.go:273-281: range over a Go map visits the roles in an order that differs
\* from one evaluation to the next, and only a strictly higher score replaces the best
\* one: any role with the highest score can come out ("" when the map is empty)
BestRoles(scores) ==
    IF DOMAIN scores = {} THEN {""}
    ELSE {role \in DOMAIN scores : \A r \in DOMAIN scores : Leq(scores[r], scores[role])}

\* auto_role.go:285-289
MinScoreThresholdMutLow(bestRole) == FracOf(1, 5)
MinScoreThreshold(bestRole) == IF bestRole = "describe" THEN FracOf(1, 2) ELSE FracOf(2, 5)

\* auto_role.go:297, 302
OverrideThreshold == FracOf(1, 5)

\* auto_role.go:294-307: (bestRole, bestScore) after the preference for commit and branch
Override(scores, bestRole) ==
    IF bestRole \in {"shell", "code"}
    THEN IF "commit" \in DOMAIN scores /\ Leq(OverrideThreshold, scores["commit"])
         THEN [role |-> "commit", score |-> scores["commit"]]
         ELSE IF "branch" \in DOMAIN scores /\ Leq(OverrideThreshold, scores["branch"])
              THEN [role |-> "branch", score |-> scores["branch"]]
              ELSE [role |-> bestRole, score |-> ScoreGet(scores, bestRole)]
    ELSE [role |-> bestRole, score |-> ScoreGet(scores, bestRole)]

NoMatch == [role |-> "", score |-> Zero]

\* auto_role.go:272-315: what is returned when the loop over the map ends with bestRole
HeuristicReturn(scores, bestRole) ==
    LET best == Override(scores, bestRole)
    IN  IF best.role # "" /\ Leq(MinScoreThreshold(bestRole), best.score)
        THEN best
        ELSE NoMatch

\* a slice of auto_role.go:125, 140, 182 is out of range
HeuristicPanics(message, availableRoles, keywords) ==
    \E role \in RolesOf(availableRoles) :
        \E j \in 1..Len(getRoleKeywords(keywords, role)) :
            LET keyword == getRoleKeywords(keywords, role)[j]
            IN  /\ IsPhrase(keyword)
                /\ \/ FlexFrom(RequestPortion(message), Fields(keyword), -1) = "panic"
                   \/ FlexFrom(MessageLower(message), Fields(keyword), -1) = "panic"

\* detectRoleHeuristic(message, availableRoles): its possible returns
detectRoleHeuristic(message, availableRoles, keywords) ==
    IF HeuristicPanics(message, availableRoles, keywords)
    THEN {[role |-> "<panic>", score |-> Zero]}
    ELSE {HeuristicReturn(Scores(message, availableRoles, keywords), bestRole) :
            bestRole \in BestRoles(Scores(message, availableRoles, keywords))}

----------------------------------------------------------------------------
(* Evaluations of detectRoleHeuristic on one message                       *)

MaxMessageWords == 3
MaxEvaluations == 2

HeuristicWords == {"generate", "git", "commit", "message", "run", "LS", "what", "branch", "{"}

\* a word of 19 bytes
LongWord == "xxxxxxxxxxxxxxxxxxx"

\* n times the word w, each followed by a blank
Repeat(w, n) == [i \in 1..(2 * n) |-> IF i % 2 = 1 THEN w ELSE " "]

\* the words of ws with one blank between them
RECURSIVE Spaced(_)
Spaced(ws) ==
    IF ws = <<>> THEN <<>>
    ELSE IF Len(ws) = 1 THEN <<ws[1]>>
    ELSE <<ws[1], " ">> \o Spaced(Tail(ws))

\* short messages, the message of the specificity example, a command after a prompt
\* sign, a message of more than 50 words and one of more than 500 bytes, both with the
\* keyword before the request portion
HeuristicMessages ==
    {Spaced(ws) : ws \in ListsOf(HeuristicWords, MaxMessageWords)}
    \cup {<<"generate", " ", "git", " ", "commit", " ", "message">>,
          <<" ", "$", " ", "run", " ", "LS", "\n">>,
          <<"commit", " ">> \o Repeat("run", RequestWords) \o <<"git">>,
          <<"commit", " ">> \o Repeat(LongWord, 25) \o <<LongWord>>}

HeuristicRoleLists ==
    {<<"default", "shell", "commit", "branch">>,
     <<"default", "shell", "code", "describe">>,
     <<"shell", "code", "describe", "commit", "branch">>}

\* auto_role.keywords.*: a short form of the defaults of config.go, and lists of single
\* words only
HeuristicKeywords ==
    {[shell |-> <<<<"run">>, <<"ls">>, <<"git">>>>,
      code |-> <<<<"function">>, <<"class">>>>,
      describe |-> <<<<"what">>, <<"what", " ", "is">>>>,
      commit |-> <<<<"commit", " ", "message">>, <<"generate", " ", "commit">>,
                   <<"conventional", " ", "commit">>, <<"changelog">>,
                   <<"git", " ", "commit", " ", "message">>, <<"commit">>>>,
      branch |-> <<<<"generate", " ", "branch">>, <<"git", " ", "branch">>, <<"branch">>>>],
     [shell |-> <<<<"run">>, <<"ls">>>>,
      commit |-> <<<<"commit">>>>,
      branch |-> <<<<"branch">>>>]}

NoDetection == <<>>

InitHeuristic ==
    /\ AllowIdle
    /\ RunIdle
    /\ ExecIdle
    /\ RegIdle
    /\ JsonIdle
    /\ hPc = "ready"
    /\ hMessage \in HeuristicMessages
    /\ hRoles \in HeuristicRoleLists
    /\ hKeywords \in HeuristicKeywords
    /\ hScores = <<>>
    /\ hRets = <<>>
    /\ dConf = <<>>
    /\ dCache = <<>>
    /\ dRet = NoDetection
    /\ dRan = {}

\* one evaluation of detectRoleHeuristic(hMessage, hRoles)
HeuristicCall ==
    /\ hPc \in {"ready", "called"}
    /\ Len(hRets) < MaxEvaluations
    /\ hPc' = "called"
    /\ hScores' = Scores(hMessage, hRoles, hKeywords)
    /\ \E ret \in detectRoleHeuristic(hMessage, hRoles, hKeywords) : hRets' = Append(hRets, ret)
    /\ UNCHANGED <<hMessage, hRoles, hKeywords, dConf, dCache, dRet, dRan>>
    /\ UNCHANGED <<allowVars, runVars, execVars, regVars, jsonVars>>

NextHeuristic == HeuristicCall

SpecHeuristic == InitHeuristic /\ [][NextHeuristic]_vars

----------------------------------------------------------------------------
(* Claims about detectRoleHeuristic, under SpecHeuristic                   *)

\* the evaluations made so far
Evaluations == 1..Len(hRets)

\* the score of role in the scores map of the last evaluation is at least x
ScoredAtLeast(role, x) == role \in DOMAIN hScores /\ Leq(x, hScores[role])

\* every role with the highest score is shell or code
ShellOrCodeWins == hScores # <<>> /\ BestRoles(hScores) \subseteq {"shell", "code"}

\* C21: whenever the highest-scoring role is "shell" or "code" and "commit" has a score
\* of at least 0.2, detectRoleHeuristic returns the role "commit"; otherwise, when
\* "branch" has a score of at least 0.2, it returns the role "branch"
C21_SpecificRoleWins ==
    \A e \in Evaluations :
        ShellOrCodeWins =>
            /\ ScoredAtLeast("commit", OverrideThreshold) => hRets[e].role = "commit"
            /\ (~ScoredAtLeast("commit", OverrideThreshold)
                /\ ScoredAtLeast("branch", OverrideThreshold)) => hRets[e].role = "branch"

\* C22: detectRoleHeuristic returns a non-empty role only with a score of at least 0.4,
\* and of at least 0.5 when the role is "describe"; in every other case it returns the
\* empty role with the score 0; and no evaluation panics
C22_ThresholdOrNoMatch ==
    \A e \in Evaluations :
        /\ hRets[e].role # "<panic>"
        /\ hRets[e].role # "" =>
              /\ Leq(FracOf(2, 5), hRets[e].score)
              /\ hRets[e].role = "describe" => Leq(FracOf(1, 2), hRets[e].score)
        /\ hRets[e].role = "" => hRets[e].score = Zero

\* a role was returned, and a role with a positive score below its threshold was not
C22_Witness ==
    /\ Len(hRets) = 1
    /\ hRets[1].role = ""
    /\ \E role \in DOMAIN hScores : Less(Zero, hScores[role]) /\ Less(hScores[role], FracOf(2, 5))

C22_WitnessDescribe ==
    /\ Len(hRets) = 1
    /\ hRets[1].role = "describe"

\* C23: every evaluation of detectRoleHeuristic on the same message, available roles
\* and keywords returns the same role and the same score
C23_Deterministic ==
    \A e1, e2 \in Evaluations : hRets[e1] = hRets[e2]

\* C30: every score in the scores map and every returned score lies in [0, 1]
C30_ScoresInUnitInterval ==
    /\ \A role \in DOMAIN hScores : Leq(Zero, hScores[role]) /\ Leq(hScores[role], One)
    /\ \A e \in Evaluations : Leq(Zero, hRets[e].score) /\ Leq(hRets[e].score, One)

----------------------------------------------------------------------------
(* api/auto_role.go: DetectRole                                            *)

\* a DetectionResult
Detection(role, method, score) == [Role |-> role, Method |-> method, Score |-> score]

\* strings.Trim(s, "\"'`")
IsQuote(c) == c \in {"'", "\""}
TrimQuotes(s) ==
    LET keep == {i \in 1..Len(s) : ~IsQuote(s[i])}
    IN  IF keep = {} THEN <<>> ELSE SubSeq(s, SetMin(keep), SetMax(keep))

\* auto_role.go:372-381: the role name read from the reply of the model
ParseDetectedRole(response) ==
    LET detectedRole == TrimQuotes(ToLower(TrimSpace(response)))
        fields == Fields(detectedRole)
        first == IF Len(fields) > 0 THEN fields[1] ELSE detectedRole
    IN  IF Len(fields) > 0 /\ Len(first) > 0 /\ first[Len(first)] \in {".", ","}
        THEN SubSeq(first, 1, Len(first) - 1)
        ELSE first

\* what the provider can return to detectRoleLLM: (response, err)
LLMReturns ==
    {[response |-> <<>>, err |-> "LLM detection failed"],
     [response |-> <<"shell">>, err |-> "nil"],
     [response |-> <<" ", "'", "commit", ".", "'", "\n">>, err |-> "nil"],
     [response |-> <<"LS", " ", "run">>, err |-> "nil"]}

\* detectRoleLLM(message, availableRoles): (role, err)
detectRoleLLM(llm, availableRoles) ==
    IF llm.err # "nil" THEN [role |-> "", err |-> llm.err]
    ELSE IF \E r \in RolesOf(availableRoles) : <<r>> = ParseDetectedRole(llm.response)
         THEN [role |-> CHOOSE r \in RolesOf(availableRoles) :
                            <<r>> = ParseDetectedRole(llm.response),
               err |-> "nil"]
         ELSE [role |-> "default", err |-> "nil"]

\* auto_role.go:484-487
ExplicitRole(c) == IF c.systemrole # "" THEN c.systemrole ELSE c.role

\* auto_role.go:517-520
DetectionMode(c) == IF c.mode = "" THEN "hybrid" ELSE c.mode

\* auto_role.go:527: score > 0.3
HeuristicAccepted(ret) == ret.role # "" /\ Less(FracOf(3, 10), ret.score)

DefaultDetection == Detection("default", "default", Zero)

\* auto_role.go:522-558: the result when no explicit role is set and the cache has no
\* entry, after the heuristic returned ret
Detected(c, ret, availableRoles) ==
    LET mode == DetectionMode(c)
        heuristic == mode \in {"heuristic", "hybrid"} /\ HeuristicAccepted(ret)
        llm == detectRoleLLM(c.llm, availableRoles)
    IN  IF heuristic THEN Detection(ret.role, "heuristic", ret.score)
        ELSE IF mode = "hybrid" /\ llm.err = "nil" /\ llm.role # ""
             THEN Detection(llm.role, "llm", Zero)
             ELSE DefaultDetection

\* the detections that auto_role.go:525-549 run
Ran(c, ret) ==
    LET mode == DetectionMode(c)
    IN  (IF mode \in {"heuristic", "hybrid"} THEN {"heuristic"} ELSE {})
        \cup (IF mode = "hybrid" /\ ~HeuristicAccepted(ret) THEN {"llm"} ELSE {})

DetectMessages ==
    {<<"run", " ", "LS">>, <<"generate", " ", "git", " ", "commit", " ", "message">>,
     <<"commit", " ", "branch">>, <<"message">>}

DetectSettings ==
    [enabled : BOOLEAN, systemrole : {"", "code"}, role : {"", "describe"},
     mode : {"", "off", "heuristic", "hybrid"}, cacheEnabled : BOOLEAN, llm : LLMReturns]

\* the cache file of this message: absent, or a result written earlier
CacheContents == {NoDetection, Detection("shell", "llm", Zero)}

InitDetect ==
    /\ AllowIdle
    /\ RunIdle
    /\ ExecIdle
    /\ RegIdle
    /\ JsonIdle
    /\ hPc = "detect"
    /\ hMessage \in DetectMessages
    /\ hRoles = <<"default", "shell", "code", "describe", "commit", "branch">>
    /\ hKeywords \in HeuristicKeywords
    /\ hScores = <<>>
    /\ hRets = <<>>
    /\ dConf \in DetectSettings
    /\ dCache \in CacheContents
    /\ dRet = NoDetection
    /\ dRan = {}

\* DetectRole(hMessage, debug)
DetectRole ==
    /\ hPc = "detect"
    /\ hPc' = "detected"
    /\ IF ~dConf.enabled
       THEN /\ dRet' = DefaultDetection
            /\ UNCHANGED <<dCache, dRan, hRets, hScores>>
       ELSE IF ExplicitRole(dConf) # ""
       THEN /\ dRet' = Detection(ExplicitRole(dConf), "explicit", Zero)
            /\ UNCHANGED <<dCache, dRan, hRets, hScores>>
       ELSE IF dConf.cacheEnabled /\ dCache # NoDetection
       THEN /\ dRet' = dCache
            /\ dRan' = {"cache"}
            /\ UNCHANGED <<dCache, hRets, hScores>>
       ELSE IF DetectionMode(dConf) \in {"heuristic", "hybrid"}
       THEN \E ret \in detectRoleHeuristic(hMessage, hRoles, hKeywords) :
                /\ hRets' = <<ret>>
                /\ hScores' = Scores(hMessage, hRoles, hKeywords)
                /\ dRet' = Detected(dConf, ret, hRoles)
                /\ dRan' = Ran(dConf, ret)
                /\ dCache' = IF dConf.cacheEnabled THEN dRet' ELSE dCache
       ELSE /\ dRet' = Detected(dConf, NoMatch, hRoles)
            /\ dRan' = Ran(dConf, NoMatch)
            /\ dCache' = IF dConf.cacheEnabled THEN dRet' ELSE dCache
            /\ UNCHANGED <<hRets, hScores>>
    /\ UNCHANGED <<hMessage, hRoles, hKeywords, dConf>>
    /\ UNCHANGED <<allowVars, runVars, execVars, regVars, jsonVars>>

NextDetect == DetectRole

SpecDetect == InitDetect /\ [][NextDetect]_vars

\* C24: whenever the systemrole or role setting is not empty, DetectRole returns that
\* role with the method "explicit", for every message, every auto_role.enabled, every
\* auto_role.mode and every cache content, and runs no detection
C24_ExplicitRoleWins ==
    (hPc = "detected" /\ ExplicitRole(dConf) # "") =>
        /\ dRet.Role = ExplicitRole(dConf)
        /\ dRet.Method = "explicit"
        /\ dRan = {}

----------------------------------------------------------------------------
(* Claims about the steps of a Run, under Spec                             *)

\* the decide events of the kind given: a tool decision, an answer, a failed call
ToolDecides == {i \in EventIdx : IsDecideEv(rEvents[i]) /\ rEvents[i].ok
                                  /\ rEvents[i].text = <<"tool">>}
AnswerDecides == {i \in EventIdx : IsDecideEv(rEvents[i]) /\ rEvents[i].ok
                                    /\ rEvents[i].text = <<"answer">>}
FailedDecides == {i \in EventIdx : IsDecideEv(rEvents[i]) /\ ~rEvents[i].ok}

\* Run is between two iterations or has returned
BetweenIterations == rPc = "loop" \/ Returned

\* the last step, if any, has the role given
EndsWith(role) == stSteps # <<>> /\ stSteps[Len(stSteps)].Role = role

\* C25: every assistant step holding a tool decision is followed at once by exactly one
\* observation; whenever the planner is called the steps are empty or end with a user
\* step; no two assistant steps are adjacent; and the only assistant step without an
\* observation after it is a final answer
C25_DecisionThenObservation ==
    /\ \A i \in 1..(Len(stSteps) - 1) :
          stSteps[i].Role = "assistant" => stSteps[i + 1].Role = "user"
    /\ BetweenIterations =>
          Len(stSteps) = 2 * Cardinality(ToolDecides) + Cardinality(AnswerDecides)
                         + Cardinality(FailedDecides)
    /\ rPc = "loop" => (stSteps = <<>> \/ EndsWith("user"))
    /\ (BetweenIterations /\ EndsWith("assistant")) =>
          /\ Returned
          /\ rDecision.Action = "answer"
          /\ rRet = AnswerReturn(rDecision)
    /\ rPc \in {"decided", "found", "allowed"} =>
          /\ EndsWith("assistant")
          /\ Len(stSteps) = 2 * Cardinality(ToolDecides) - 1 + Cardinality(FailedDecides)

\* a run in which an unknown tool and an executed command were each followed by their
\* observation
C25_Witness ==
    /\ Returned
    /\ Len(stSteps) = 4
    /\ stSteps[1].Role = "assistant" /\ stSteps[2].Role = "user"
    /\ stSteps[3].Role = "assistant" /\ stSteps[4].Role = "user"
    /\ \E i \in EventIdx : rEvents[i].ev = "lookup" /\ ~rEvents[i].ok
    /\ \E i \in EventIdx : rEvents[i].ev = "exec"

\* the steps and the goal after a step of Run that takes place once the loop has begun
Started == rPc \notin {"idle", "cli", "call"}

\* C26: a step of Run leaves the steps as they are or adds exactly one step at the
\* end, an assistant step holding the raw decision or a user step, and leaves every
\* earlier step unchanged; the goal never changes after the loop has begun
C26_AppendOnly ==
    [][ /\ Started => stGoal' = stGoal
        /\ \/ stSteps' = stSteps
           \/ /\ Len(stSteps') = Len(stSteps) + 1
              /\ SubSeq(stSteps', 1, Len(stSteps)) = stSteps
              /\ LET last == stSteps'[Len(stSteps')]
                 IN  \/ /\ last.Role = "assistant"
                        /\ rPc = "loop"
                        /\ Unmarshal(last.Content) = rDecision'
                     \/ /\ last.Role = "user"
                        /\ rPc = "decided" => last.Content = <<"error: Unknown tool: ", rDecision.Name>>
                        /\ rPc = "found" => HasPrefix(last.Content, <<"blocked: ">>)
                        /\ (rPc = "allowed" /\ IsDryRun(rOpts)) =>
                               last.Content = DryRunObservation(rDecision)
      ]_vars

\* steps were appended one after the other, the goal being what it was at the start
C26_Witness ==
    /\ Returned
    /\ Len(stSteps) >= 3
    /\ stGoal = TrimSpace(rGoal)
    /\ stGoal # <<>>

\* the reply decodes to an action "answer", or to an action "tool" with a name and args
ValidReply(reply) ==
    /\ reply.sendErr = NilErr
    /\ "text" \notin DOMAIN reply.body
    /\ "action" \in DOMAIN reply.body
    /\ \/ reply.body.action = "answer"
       \/ /\ reply.body.action = "tool"
          /\ "name" \in DOMAIN reply.body /\ reply.body.name # ""
          /\ "args" \in DOMAIN reply.body

\* C27: Decide returns a Decision without error only for an action "answer", or an
\* action "tool" with a non-empty name and non-nil args; every other reply returns an
\* error and no Decision, so a decision that reaches the lookup and the guard has a
\* name and args; an answer without content is accepted
C27_OnlyValidDecisions ==
    /\ \A reply \in Replies :
          /\ Decide(reply).err = NilErr <=> ValidReply(reply)
          /\ Decide(reply).err # NilErr => Decide(reply).dec = NoDecision
          /\ Decide(reply).err = NilErr => Decide(reply).dec = Unmarshal(reply.body)
    /\ rPc \in {"decided", "found", "allowed"} =>
          /\ rDecision.Action = "tool"
          /\ rDecision.Name # ""
          /\ ~rDecision.ArgsNil
    /\ \A i \in EventIdx :
          rEvents[i].ev \in {"lookup", "guard"} => rEvents[i].name # ""
    /\ \A i \in EventIdx :
          (IsDecideEv(rEvents[i]) /\ rEvents[i].ok) =>
              rEvents[i].text \in {<<"answer">>, <<"tool">>}

\* an answer without content was accepted, after a tool decision without args and one
\* without name were answered by an error
C27_Witness ==
    /\ Returned
    /\ rRet = [answer |-> <<>>, err |-> NilErr]
    /\ rDecision.Action = "answer"
    /\ rDecision.Content = <<>>
    /\ \E i \in EventIdx : IsDecideEv(rEvents[i]) /\ ~rEvents[i].ok

----------------------------------------------------------------------------
(* planner.go: extractJSON                                                 *)
(*                                                                         *)
(* Here an atom is one byte of the reply ("{", "}", a backtick, a blank)   *)
(* or a run of bytes holding none of these ("json", "Sure", the members of *)
(* an object).                                                             *)

\* the byte 0x60
BackTick == "<backtick>"
Fence == <<BackTick, BackTick, BackTick>>

\* the positions at which ``` begins
FenceAt(s, i) == i + 2 <= Len(s) /\ SubSeq(s, i, i + 2) = Fence

\* planner.go:95: the submatch of jsonBlockRe when it matches at position i, where the
\* text between the opening ``` and the next backtick is between: (?:json)? and \s* take
\* what they can, and give back what ([^`]+) needs to be non-empty
FenceGroup(between) ==
    LET afterJson == IF between # <<>> /\ Head(between) = "json" THEN Tail(between) ELSE between
        rest == {i \in 1..Len(afterJson) : ~IsSpace(afterJson[i])}
        afterSpace == IF rest = {} THEN <<>>
                      ELSE SubSeq(afterJson, SetMin(rest), Len(afterJson))
    IN  IF afterSpace # <<>> THEN afterSpace
        ELSE IF afterJson # <<>> THEN <<afterJson[Len(afterJson)]>>
        ELSE between

\* the end of the text between the opening ``` at i and the next backtick
RunEnd(s, i) ==
    LET ticks == {j \in (i + 3)..Len(s) : s[j] = BackTick}
    IN  IF ticks = {} THEN Len(s) ELSE SetMin(ticks) - 1

\* jsonBlockRe matches at position i
FenceMatchesAt(s, i) ==
    /\ FenceAt(s, i)
    /\ RunEnd(s, i) >= i + 3
    /\ FenceAt(s, RunEnd(s, i) + 1)

\* planner.go:100: FindStringSubmatch takes the leftmost match
FenceMatches(s) == {i \in 1..Len(s) : FenceMatchesAt(s, i)}

\* planner.go:105-120: the block from the first "{" to the "}" that closes it
RECURSIVE BraceScan(_, _, _, _)
BraceScan(s, start, i, depth) ==
    IF i > Len(s) THEN SubSeq(s, start, Len(s))
    ELSE IF s[i] = "{" THEN BraceScan(s, start, i + 1, depth + 1)
    ELSE IF s[i] = "}"
         THEN IF depth - 1 = 0 THEN SubSeq(s, start, i)
              ELSE BraceScan(s, start, i + 1, depth - 1)
         ELSE BraceScan(s, start, i + 1, depth)

\* extractJSON
extractJSON(raw) ==
    LET s == TrimSpace(raw)
        start == Index(s, <<"{">>)
    IN  IF FenceMatches(s) # {}
        THEN LET i == SetMin(FenceMatches(s))
             IN  TrimSpace(FenceGroup(SubSeq(s, i + 3, RunEnd(s, i))))
        ELSE IF start < 0 THEN s
        ELSE BraceScan(s, start + 1, start + 1, 0)

MaxJsonLen == 4

\* JSON objects without braces inside their strings: flat, nested, with a code span in
\* a string, with a fenced block in a string
PlainObjects == {<<"{", "a", "}">>, <<"{", "a", "{", "b", "}", "c", "}">>}
TickObjects == {<<"{", "a", BackTick, "ls", BackTick, "}">>,
                <<"{", "a">> \o Fence \o <<"sh", "\n", "ls", "\n">> \o Fence \o <<"}">>}
Objects == PlainObjects \cup TickObjects

\* prose before and after the object
Prose == {<<>>, <<"Sure", ":", " ">>, <<"\n">>, <<" ", "ok", ".">>}

\* a ```json fence, a fence without language, or none
FenceOpenings == {<<>>, Fence \o <<"json", "\n">>, Fence \o <<"json">>, Fence \o <<"\n">>}
Wrapped(open, object) == IF open = <<>> THEN object ELSE open \o object \o <<"\n">> \o Fence

WrappedReplies ==
    {before \o Wrapped(open, object) \o after :
        before \in Prose, after \in Prose, open \in FenceOpenings, object \in Objects}

\* any short text of braces, backticks and other bytes
ShortReplies ==
    ListsOf({"{", "}", "a", " "}, MaxJsonLen)
    \cup {Fence \o t \o Fence : t \in ListsOf({"json", " ", "a"}, MaxJsonLen - 2)}

NoExtract == <<"<none>">>

InitJson ==
    /\ AllowIdle
    /\ RunIdle
    /\ ExecIdle
    /\ RegIdle
    /\ RoleIdle
    /\ jPc = "ready"
    /\ jIn \in WrappedReplies \cup ShortReplies
    /\ jOut = NoExtract
    /\ jAgain = NoExtract

\* extractJSON(jIn)
ExtractCall ==
    /\ jPc = "ready"
    /\ jOut' = extractJSON(jIn)
    /\ jPc' = "done"
    /\ UNCHANGED <<jIn, jAgain>>
    /\ UNCHANGED <<allowVars, runVars, execVars, regVars, roleVars>>

\* extractJSON applied to its own result
ExtractAgain ==
    /\ jPc = "done"
    /\ jAgain' = extractJSON(jOut)
    /\ jPc' = "redone"
    /\ UNCHANGED <<jIn, jOut>>
    /\ UNCHANGED <<allowVars, runVars, execVars, regVars, roleVars>>

NextJson == ExtractCall \/ ExtractAgain

SpecJson == InitJson /\ [][NextJson]_vars

----------------------------------------------------------------------------
(* Claims about extractJSON, under SpecJson                                *)

\* number of "{" minus number of "}" in t
NumberOf(t, c) == Cardinality({i \in 1..Len(t) : t[i] = c})
Depth(t) == NumberOf(t, "{") - NumberOf(t, "}")

\* the block of s that begins at the first "{" and ends where the depth is 0 again, or
\* at the end of s
BraceBlock(s) ==
    LET p == SetMin({i \in 1..Len(s) : s[i] = "{"})
        closes == {q \in p..Len(s) : Depth(SubSeq(s, p, q)) = 0}
    IN  SubSeq(s, p, IF closes = {} THEN Len(s) ELSE SetMin(closes))

\* the text between the first ``` that opens a block and the ``` that closes it
FirstBlock(s) ==
    LET i == SetMin(FenceMatches(s)) IN SubSeq(s, i + 3, RunEnd(s, i))

\* the first sentence of C28: what extractJSON returns for every input
ExtractsBlock ==
    LET s == TrimSpace(jIn)
    IN  jPc # "ready" =>
          IF FenceMatches(s) # {}
          THEN /\ jOut = TrimSpace(FenceGroup(FirstBlock(s)))
               /\ Contains(FirstBlock(s), jOut)
               /\ \A i \in 1..Len(jOut) : jOut[i] # BackTick
          ELSE IF \E i \in 1..Len(s) : s[i] = "{"
               THEN jOut = BraceBlock(s)
               ELSE jOut = s

\* jIn is one of the objects given, in prose, in a json fence, or both
WrapsOneOf(objects, object) ==
    /\ object \in objects
    /\ \E before \in Prose, after \in Prose, open \in FenceOpenings :
          /\ open # <<>> => Contains(open, <<"json">>)
          /\ jIn = before \o Wrapped(open, object) \o after

\* the second sentence of C28 for the objects given
RoundTrips(objects) ==
    \A object \in objects :
        (jPc # "ready" /\ WrapsOneOf(objects, object)) =>
            /\ jOut = object
            /\ jPc = "redone" => jAgain = object

\* C28: extractJSON returns the trimmed content of the first fenced block, else the
\* block from the first "{" to the "}" that closes it, else the trimmed input; and
\* every JSON object without braces inside its strings, wrapped in prose, in a json
\* fence or both, is returned exactly and is returned unchanged by a second application
C28_ExtractJSONRoundTrip == ExtractsBlock /\ RoundTrips(Objects)

----------------------------------------------------------------------------
(* Claims about Allow, checked under SpecAllow (continued)                 *)

====
